---------------------------- MODULE Spec2Model ----------------------------
(*
  QuantumOpt: the task lifecycle (queue/task.py), the evaluation loop of the
  candidate generator (optimizers/base_optimizer.py, global_optimizer.py), the
  scheduler (queue/manager.py) and the connection registry
  (web/backend/websocket_manager.py), as one state machine.

  The program is single-threaded asyncio: code between two suspension points
  is one atomic step. A coroutine suspends where it awaits something that is
  not ready: asyncio.gather / asyncio.sleep / a task that is not done /
  websocket I/O / EventEmitter.emit, whose subscribers may themselves
  suspend. Every action below is one such atomic block.
*)
EXTENDS Naturals, Integers, Sequences, FiniteSets, TLC

\* ------------------------------------------------------------------ bounds
NumTasks == 2
MaxLoops == 2
MaxCalls == 3
MaxBudget == 2
MaxWorkers == 2
MaxScheds == 1
NumClients == 2
MaxSockets == 2
MaxEvents == 3
MaxSubs == 2
MaxEmits == 2
MaxValue == 2
MaxHandlers == 3
MaxEmitCalls == 2
MaxLog == 3
MaxStarts == 3
MaxHandles == 3

TaskIds == 1..NumTasks
LoopIds == 1..MaxLoops
CallIds == 1..MaxCalls
SchedIds == 1..MaxStarts
ClientIds == 1..NumClients
SubIds == 1..MaxSubs
HandlerIds == 1..MaxHandlers
EmitIds == 1..MaxEmitCalls

Terminal == {"completed", "failed", "stopped"}
Active == {"running", "paused"}

VARIABLES
  tasks,              \* the task objects a caller can reach, in the order of
                      \* their creation: the queue's _tasks
  status,             \* task.status
  stop_requested,     \* task._stop_requested
  pause_requested,    \* task._pause_requested
  optimizer,          \* task._optimizer: 0 (None) or the loop that created it
  error,              \* task.error: "none" or the message
  result,             \* task.result: None (set is FALSE) or the dictionary
  optimization_task,  \* task._optimization_task: 0 (None) or a loop
  budget,             \* config.optimizer_config.budget
  num_workers,        \* config.optimizer_config.num_workers
  nloops,             \* number of _run_optimization coroutines created
  loop,               \* the _run_optimization coroutines of each task
  optPaused,          \* ._paused of the optimizer object a loop created
  calls,              \* control calls in flight
  callsLeft,          \* control calls the environment may still issue
  lastOutcome,        \* how the last finished control call ended
  evalCount,          \* objective evaluations begun, per task
  iterEvents,         \* ITERATION_COMPLETED events emitted, per task
  errEvents,          \* OPTIMIZATION_ERROR events emitted, per task
  doneEvents,         \* OPTIMIZATION_COMPLETED events emitted, per task
  q_stopped,          \* queue._stopped
  is_paused,          \* queue._is_paused
  current_task,       \* queue._current_task: 0 (None) or a task
  processing_task,    \* queue._processing_task: 0 (None) or a scheduling loop
  nscheds,            \* number of _process_tasks coroutines created
  sched,              \* the _process_tasks coroutines
  nobjs,              \* task objects constructed by add_task
  stopping,           \* the scheduling loops a stop_processing call awaits
  startedBy,          \* the tasks each scheduling loop has called start() on
  parameter_config,   \* config["parameter_config"] of the task add_task is given
  added,              \* the task ids of the TASK_ADDED events the queue emitted
  lastAdd,            \* the last add_task call: its arguments and how it ended
  taskDoneEvents,     \* TASK_COMPLETED / TASK_FAILED events the queue emitted, per task
  connections,        \* manager._connections: per client 0 (absent) or a socket
  event_buffer,       \* manager._event_buffer
  forwarded,          \* events the queue has handed to _handle_queue_event
  nsockets,           \* sockets each client has opened
  sender,             \* coroutines suspended in websocket I/O
  received,           \* messages delivered to the latest socket of each client
  seenAtConnect,      \* events forwarded before that socket was registered
  dead,               \* sockets whose peer has gone: a send on them raises
  ended,              \* sockets whose endpoint has left its message loop
  closing,            \* disconnect calls suspended in websocket.close()
  handling,           \* the client message handle_client_message works on
  replies,            \* what was sent to the sender in reply to that message
  sweep,              \* the cleanup_stale_connections call under way, if any
  connecting,         \* connect calls suspended in old_websocket.close()
  closed,             \* sockets on which the manager has called close()
  q_subscribers,      \* queue._subscribers
  t_subscribers,      \* task._subscribers, per task object
  emitted,            \* events each task object has emitted
  delivered,          \* the events each subscriber was called with, in order
  values,             \* the values the objective function can return
  optBest,            \* ._best_value of the optimizer object a loop created
  doneBest,           \* best_value of the last OPTIMIZATION_COMPLETED, 0 if none
  subscribers,        \* emitter._subscribers of one EventEmitter
  behaviour,          \* how each callback runs: its kind and whether it raises
  emitting,           \* the calls of emit() on that emitter
  called,             \* the events each callback was called with, in order
  nevents             \* events emitted so far: event n announces the n-th change

taskVars == <<tasks, status, stop_requested, pause_requested, optimizer, error,
              result, optimization_task, budget, num_workers, nloops, loop,
              optPaused, evalCount, iterEvents, errEvents, doneEvents>>
callVars == <<calls, callsLeft, lastOutcome>>
addVars == <<parameter_config, added, lastAdd, taskDoneEvents>>
queueVars == <<q_stopped, is_paused, current_task, processing_task, nscheds, sched,
               nobjs, stopping, startedBy, addVars>>
connVars == <<dead, ended, closing>>
msgVars == <<handling, replies>>
raceVars == <<connecting, closed>>
wsVars == <<connections, event_buffer, forwarded, nsockets, sender, received,
            seenAtConnect, connVars, msgVars, sweep, raceVars>>
emitVars == <<subscribers, behaviour, emitting, called, nevents>>
busVars == <<q_subscribers, t_subscribers, emitted, delivered, emitVars>>
valVars == <<values, optBest, doneBest>>

\* ------------------------------------------------------------ coroutines
NoLoop == [pc |-> "free", opt |-> 0, remaining |-> 0, child |-> <<>>]
NoCall == [op |-> "none", t |-> 0, pc |-> "none", l |-> 0]
NoOutcome == [op |-> "none", t |-> 0, kind |-> "none", from |-> "none"]
NoSched == [pc |-> "free", t |-> 0]
\* float('inf') of task.py:81 and base_optimizer.py:29: above every value.
Inf == MaxValue + 1
\* end_time is None (0) or the reading of time.time() that was stored last:
\* the n-th reading stored in a result is n.
NoResult == [set |-> FALSE, end_time |-> 0, trace |-> <<>>, best_value |-> Inf]

\* A loop that has ended: normally, cancelled, or with an exception.
LoopEnded(t, l) == loop[t][l].pc \in {"done", "cancelled", "raised"}

\* A loop that exists and has not ended.
LoopInFlight(t, l) == loop[t][l].pc \notin {"free", "done", "cancelled", "raised"}

\* ----------------------------------------------------------- task object
\* OptimizationTask._update_status: the assignment; the emit that follows is
\* the caller's suspension point.
UpdateStatus(t, new_status) ==
  status' = [status EXCEPT ![t] = new_status]

\* MultiprocessingGlobalOptimizer.pause on the object loop o of task t made
OptimizerPause(t, o) ==
  optPaused' = [optPaused EXCEPT ![t][o] = TRUE]

\* A resume() that leaves the waiting evaluations asleep.
LeaveWaiters(t, o, lp) == lp

\* MultiprocessingGlobalOptimizer.resume: _pause_event.set() wakes every
\* evaluation waiting on this object's event; a woken waiter does not look
\* at the event again (asyncio.Event.wait).
WakeWaiters(t, o, lp) ==
  [l \in LoopIds |->
     IF lp[l].opt = o /\ lp[l].pc = "gather"
     THEN [lp[l] EXCEPT !.child =
             [i \in DOMAIN lp[l].child |->
                IF lp[l].child[i] = "waiting" THEN "woken" ELSE lp[l].child[i]]]
     ELSE lp[l]]

\* Task.cancel() on a loop: CancelledError is raised at the loop's current
\* await; gather cancels the evaluations that are not done.
CancelLoop(lp, l) ==
  IF lp[l].pc \in {"free", "done", "cancelled", "raised", "cancelling"}
  THEN lp
  ELSE [lp EXCEPT ![l] =
          [@ EXCEPT !.pc = "cancelling",
                    !.child = [i \in DOMAIN @ |->
                                 IF @[i] \in {"ok", "err"}
                                 THEN @[i] ELSE "cancelled"]]]


\* ------------------------------------------------------- control calls
FreeSlots == {c \in CallIds : calls[c] = NoCall}
FreeSlot == CHOOSE c \in FreeSlots : \A d \in FreeSlots : c <= d

\* start() coroutines of task t that passed the status check and have not
\* yet created their loop.
StartsInFlight(t) ==
  Cardinality({c \in CallIds : calls[c].op = "start" /\ calls[c].t = t})
  + Cardinality({s \in SchedIds : /\ sched[s].t = t
                                  /\ sched[s].pc \in {"start_emit_started",
                                                      "start_emit_running"}})

\* A loop slot is kept for the start() the scheduler will issue on a task
\* made by add_task.
Reserved(t) ==
  IF t <= nobjs /\ \A s \in SchedIds : t \notin startedBy[s] THEN 1 ELSE 0

\* The environment may issue one more control call on task t.
CanCall(t) == /\ \E i \in DOMAIN tasks : tasks[i] = t
              /\ callsLeft > 0
              /\ FreeSlots # {}

\* A control call that ends within the step that began it.
Return(op, t, kind, from) ==
  /\ UNCHANGED <<queueVars, wsVars, busVars, valVars>>
  /\ lastOutcome' = [op |-> op, t |-> t, kind |-> kind, from |-> from]
  /\ callsLeft' = callsLeft - 1
  /\ UNCHANGED calls

\* A control call that suspends at pc.
Suspend(op, t, pc, l) ==
  /\ UNCHANGED <<queueVars, wsVars, busVars, valVars>>
  /\ calls' = [calls EXCEPT ![FreeSlot] = [op |-> op, t |-> t, pc |-> pc, l |-> l]]
  /\ callsLeft' = callsLeft - 1
  /\ UNCHANGED lastOutcome

\* A suspended call moves on to its next suspension point.
Advance(c, pc) ==
  /\ UNCHANGED <<queueVars, wsVars, busVars, valVars>>
  /\ calls' = [calls EXCEPT ![c].pc = pc]
  /\ UNCHANGED <<callsLeft, lastOutcome>>

\* A suspended call ends.
Finish(c, kind, from) ==
  /\ UNCHANGED <<queueVars, wsVars, busVars, valVars>>
  /\ lastOutcome' = [op |-> calls[c].op, t |-> calls[c].t, kind |-> kind, from |-> from]
  /\ calls' = [calls EXCEPT ![c] = NoCall]
  /\ UNCHANGED callsLeft

\* start(): the status check of task.py:75
StartAllowed(st) == st = "pending"

\* start(), task.py:75-89: the check, the result dictionary, and the emit of
\* TASK_STARTED, at which the coroutine suspends with the status unchanged.
StartCheck(t) ==
  /\ StartAllowed(status[t])
  /\ result' = [result EXCEPT ![t] = [set |-> TRUE, end_time |-> 0,
                                      trace |-> <<>>, best_value |-> Inf]]

\* start(), task.py:92: _update_status("running"), suspended in its emit.
StartRunning(t) ==
  UpdateStatus(t, "running")

\* start(), task.py:93: asyncio.create_task(self._run_optimization())
StartLaunch(t) ==
  LET l == nloops[t] + 1 IN
  /\ nloops' = [nloops EXCEPT ![t] = l]
  /\ loop' = [loop EXCEPT ![t][l] = [NoLoop EXCEPT !.pc = "created"]]
  /\ optimization_task' = [optimization_task EXCEPT ![t] = l]

CallStart(t) ==
  /\ CanCall(t)
  /\ IF StartAllowed(status[t])
     THEN /\ nloops[t] + StartsInFlight(t) + Reserved(t) < MaxLoops
          /\ StartCheck(t)
          /\ Suspend("start", t, "emit_started", 0)
          /\ UNCHANGED <<tasks, status, stop_requested, pause_requested, optimizer,
                         error, optimization_task, budget, num_workers, nloops,
                         loop, optPaused, evalCount, iterEvents, errEvents,
                         doneEvents>>
     ELSE /\ Return("start", t, "raise_state", status[t])
          /\ UNCHANGED taskVars

CallStartRunning(c) ==
  /\ calls[c].op = "start" /\ calls[c].pc = "emit_started"
  /\ StartRunning(calls[c].t)
  /\ Advance(c, "emit_running")
  /\ UNCHANGED <<tasks, stop_requested, pause_requested, optimizer, error, result,
                 optimization_task, budget, num_workers, nloops, loop, optPaused,
                 evalCount, iterEvents, errEvents, doneEvents>>

CallStartLaunch(c) ==
  /\ calls[c].op = "start" /\ calls[c].pc = "emit_running"
  /\ StartLaunch(calls[c].t)
  /\ Finish(c, "ret", "none")
  /\ UNCHANGED <<tasks, status, stop_requested, pause_requested, optimizer, error,
                 result, budget, num_workers, optPaused, evalCount, iterEvents,
                 errEvents, doneEvents>>

\* stop(): the status check of task.py:101
StopAllowed(st) == st \in {"running", "paused"}

\* stop(), task.py:112-115: _cleanup_optimizer (cleanup() resumes a paused
\* optimizer, which wakes its waiting evaluations), end_time, "stopped".
\* lp is the loop table after the cancel of task.py:106.
StopFinish(t, lp) ==
  LET o == optimizer[t] IN
  /\ IF o # 0 /\ optPaused[t][o]
     THEN /\ optPaused' = [optPaused EXCEPT ![t][o] = FALSE]
          /\ loop' = [loop EXCEPT ![t] = WakeWaiters(t, o, lp)]
     ELSE /\ UNCHANGED optPaused
          /\ loop' = [loop EXCEPT ![t] = lp]
  /\ optimizer' = [optimizer EXCEPT ![t] = 0]
  /\ result' = [result EXCEPT ![t].end_time = @ + 1]
  /\ UpdateStatus(t, "stopped")
  /\ UNCHANGED <<tasks, pause_requested, error, optimization_task, budget,
                 num_workers, nloops, evalCount, iterEvents, errEvents, doneEvents>>

\* stop(), task.py:97-110: the checks, the stop flag and the cancel. Awaiting
\* a loop that has already ended does not suspend: its CancelledError is
\* swallowed, any other exception it ended with comes out of stop().
CallStop(t) ==
  LET l == optimization_task[t]
      lp == IF l = 0 THEN loop[t] ELSE CancelLoop(loop[t], l)
  IN
  /\ CanCall(t)
  /\ IF status[t] = "completed"
     THEN /\ Return("stop", t, "ret_noop", status[t])
          /\ UNCHANGED taskVars
     ELSE IF ~StopAllowed(status[t])
     THEN /\ Return("stop", t, "raise_state", status[t])
          /\ UNCHANGED taskVars
     ELSE
       /\ stop_requested' = [stop_requested EXCEPT ![t] = TRUE]
       /\ IF l # 0 /\ ~LoopEnded(t, l)
          THEN /\ loop' = [loop EXCEPT ![t] = lp]
               /\ Suspend("stop", t, "await_loop", l)
               /\ UNCHANGED <<tasks, status, pause_requested, optimizer, error, result,
                              optimization_task, budget, num_workers, nloops,
                              optPaused, evalCount, iterEvents, errEvents, doneEvents>>
          ELSE IF l # 0 /\ loop[t][l].pc = "raised"
          THEN /\ Return("stop", t, "raise_loop", status[t])
               /\ UNCHANGED <<tasks, status, pause_requested, optimizer, error, result,
                              optimization_task, budget, num_workers, nloops, loop,
                              optPaused, evalCount, iterEvents, errEvents, doneEvents>>
          ELSE /\ StopFinish(t, lp)
               /\ Suspend("stop", t, "emit_stopped", 0)

\* stop() resumes when the loop it awaits has ended (task.py:108-115).
CallStopResume(c) ==
  LET t == calls[c].t IN
  /\ calls[c].op = "stop" /\ calls[c].pc = "await_loop"
  /\ LoopEnded(t, calls[c].l)
  /\ IF loop[t][calls[c].l].pc = "raised"
     THEN /\ Finish(c, "raise_loop", status[t])
          /\ UNCHANGED taskVars
     ELSE /\ StopFinish(t, loop[t])
          /\ stop_requested' = stop_requested
          /\ Advance(c, "emit_stopped")

\* pause(): the status check of task.py:119
PauseAllowed(st) == st = "running"

\* pause(), task.py:119-129: nothing suspends before the status is set
\* (optimizer.pause() awaits nothing).
CallPause(t) ==
  /\ CanCall(t)
  /\ IF ~PauseAllowed(status[t])
     THEN /\ Return("pause", t, "raise_state", status[t])
          /\ UNCHANGED taskVars
     ELSE /\ pause_requested' = [pause_requested EXCEPT ![t] = TRUE]
          /\ IF optimizer[t] # 0
             THEN OptimizerPause(t, optimizer[t])
             ELSE UNCHANGED optPaused
          /\ UpdateStatus(t, "paused")
          /\ Suspend("pause", t, "emit_paused", 0)
          /\ UNCHANGED <<tasks, stop_requested, optimizer, error, result,
                         optimization_task, budget, num_workers, nloops, loop,
                         evalCount, iterEvents, errEvents, doneEvents>>

\* resume(): the status check of task.py:133
ResumeAllowed(st) == st = "paused"

\* resume(), task.py:133-143
CallResume(t) ==
  LET o == optimizer[t] IN
  /\ CanCall(t)
  /\ IF ~ResumeAllowed(status[t])
     THEN /\ Return("resume", t, "raise_state", status[t])
          /\ UNCHANGED taskVars
     ELSE /\ pause_requested' = [pause_requested EXCEPT ![t] = FALSE]
          /\ IF o # 0 /\ optPaused[t][o]
             THEN /\ optPaused' = [optPaused EXCEPT ![t][o] = FALSE]
                  /\ loop' = [loop EXCEPT ![t] = WakeWaiters(t, o, loop[t])]
             ELSE UNCHANGED <<optPaused, loop>>
          /\ UpdateStatus(t, "running")
          /\ Suspend("resume", t, "emit_resumed", 0)
          /\ UNCHANGED <<tasks, stop_requested, optimizer, error, result,
                         optimization_task, budget, num_workers, nloops,
                         evalCount, iterEvents, errEvents, doneEvents>>

\* The emit of TASK_STATUS_CHANGED at the end of stop / pause / resume
\* returns, and so does the call (task.py:115, 129, 143).
CallReturn(c) ==
  /\ calls[c].pc \in {"emit_stopped", "emit_paused", "emit_resumed"}
  /\ Finish(c, "ret", "none")
  /\ UNCHANGED taskVars

\* ------------------------------------------------------ evaluation loop
Min(a, b) == IF a < b THEN a ELSE b

\* A batch of num_workers candidates whatever budget remains.
AskWorkers(t, rem) == [i \in 1..num_workers[t] |-> "ready"]

\* optimize(), base_optimizer.py:58-79: ask min(num_workers, remaining)
\* candidates and gather their evaluations, none of which has run yet.
AskBatch(t, rem) == [i \in 1..Min(num_workers[t], rem) |-> "ready"]

\* _run_optimization, task.py:147-204, and optimize() up to its first
\* gather: the optimizer is created if the task holds none (a new optimizer
\* is not paused, global_optimizer.py:25-27), the stop flag is read once.
LoopStart(t, l) ==
  LET o == IF optimizer[t] = 0 THEN l ELSE optimizer[t] IN
  /\ loop[t][l].pc = "created"
  /\ optimizer' = [optimizer EXCEPT ![t] = o]
  /\ optPaused' = IF optimizer[t] = 0
                  THEN [optPaused EXCEPT ![t][l] = FALSE] ELSE optPaused
  /\ loop' = [loop EXCEPT ![t][l] =
                IF stop_requested[t]
                THEN [@ EXCEPT !.pc = "done"]
                ELSE [pc |-> "gather", opt |-> o, remaining |-> budget[t],
                      child |-> AskBatch(t, budget[t])]]
  /\ UNCHANGED <<tasks, status, stop_requested, pause_requested, error, result,
                 optimization_task, budget, num_workers, nloops, evalCount,
                 iterEvents, errEvents, doneEvents>>
  /\ UNCHANGED <<callVars, queueVars, wsVars, busVars, valVars>>

\* A cancelled loop ends: CancelledError leaves _run_optimization
\* (task.py:241-243, 256-258) without touching the task.
LoopCancelled(t, l) ==
  /\ loop[t][l].pc = "cancelling"
  /\ loop' = [loop EXCEPT ![t][l].pc = "cancelled"]
  /\ UNCHANGED <<tasks, status, stop_requested, pause_requested, optimizer, error,
                 result, optimization_task, budget, num_workers, nloops, optPaused,
                 evalCount, iterEvents, errEvents, doneEvents>>
  /\ UNCHANGED <<callVars, queueVars, wsVars, busVars, valVars>>

\* _evaluate_candidate, global_optimizer.py:83: whether the evaluation has
\* to wait on the pause event of its optimizer object.
MustWait(t, o) == optPaused[t][o]

\* The objective function is called (global_optimizer.py:85-94): it returns
\* a value or raises.
Evaluate(t, l, i, outcome) ==
  /\ loop' = [loop EXCEPT ![t][l].child[i] = outcome]
  /\ evalCount' = [evalCount EXCEPT ![t] = @ + 1]
  /\ UNCHANGED <<tasks, status, stop_requested, pause_requested, optimizer, error,
                 result, optimization_task, budget, num_workers, nloops, optPaused,
                 iterEvents, errEvents, doneEvents>>

\* An evaluation task of the gather runs for the first time.
EvalStart(t, l, i) ==
  /\ loop[t][l].pc = "gather"
  /\ i \in DOMAIN loop[t][l].child
  /\ loop[t][l].child[i] = "ready"
  /\ IF MustWait(t, loop[t][l].opt)
     THEN /\ loop' = [loop EXCEPT ![t][l].child[i] = "waiting"]
          /\ UNCHANGED <<tasks, status, stop_requested, pause_requested, optimizer,
                         error, result, optimization_task, budget, num_workers,
                         nloops, optPaused, evalCount, iterEvents, errEvents,
                         doneEvents>>
     ELSE \E outcome \in {"ok", "err"} : Evaluate(t, l, i, outcome)
  /\ UNCHANGED <<callVars, queueVars, wsVars, busVars, valVars>>

\* An evaluation woken by _pause_event.set() goes on to call the objective.
EvalWoken(t, l, i) ==
  /\ loop[t][l].pc = "gather"
  /\ i \in DOMAIN loop[t][l].child
  /\ loop[t][l].child[i] = "woken"
  /\ \E outcome \in {"ok", "err"} : Evaluate(t, l, i, outcome)
  /\ UNCHANGED <<callVars, queueVars, wsVars, busVars, valVars>>

\* The results of a batch before the first exception: each is told to the
\* generator and announced by one ITERATION_COMPLETED
\* (base_optimizer.py:82-112).
Told(ch) ==
  IF \E i \in DOMAIN ch : ch[i] = "err"
  THEN (CHOOSE i \in DOMAIN ch : ch[i] = "err" /\ \A j \in 1..(i-1) : ch[j] = "ok") - 1
  ELSE Len(ch)

\* The except clauses of task.py:244-247 and 259-262: whether the failure
\* is recorded.
RecordsFailure(t) == ~stop_requested[t]

\* The error string of task.py:246: the exception's message.
ErrorText == "boom"

\* An optimizer that keeps the latest value instead of the smallest.
LatestValue(best, v) == v

\* base_optimizer.py:93-95: the best value after a batch whose smallest
\* result is v.
BestAfter(best, v) == IF v < best THEN v ELSE best

\* task.py:213-230: the final results, given the best_value optimize()
\* returned (base_optimizer.py:119-123). A trace point is added only to an
\* empty trace.
Finalized(r, best) ==
  [set |-> TRUE, end_time |-> r.end_time + 1,
   trace |-> IF r.trace = <<>> THEN <<best>> ELSE r.trace,
   best_value |-> best]

\* A loop that never finalizes its run.
NeverFinalizes(t) == FALSE

\* task.py:209-212: whether the loop finalizes after optimize() returned.
Finalizes(t) == ~stop_requested[t] /\ status[t] # "stopped"

\* gather returns (base_optimizer.py:79): the results are processed; then
\* the next batch is asked, or the run is finalized (task.py:209-231), or the
\* first exception is raised into the handler of task.py:244-247.
LoopGather(t, l) ==
  LET ch == loop[t][l].child
      told == Told(ch)
      rem == loop[t][l].remaining - told
      failed == \E i \in DOMAIN ch : ch[i] = "err"
  IN
  /\ loop[t][l].pc = "gather"
  /\ \A i \in DOMAIN ch : ch[i] \in {"ok", "err"}
  /\ iterEvents' = [iterEvents EXCEPT ![t] = @ + told]
  /\ IF told = 0 THEN UNCHANGED optBest
     ELSE \E v \in values :
            optBest' = [optBest EXCEPT ![t][loop[t][l].opt] = BestAfter(@, v)]
  /\ IF failed
     THEN IF RecordsFailure(t)
          THEN /\ error' = [error EXCEPT ![t] = ErrorText]
               /\ UpdateStatus(t, "failed")
               /\ loop' = [loop EXCEPT ![t][l] =
                             [@ EXCEPT !.pc = "emit_failed", !.remaining = rem, !.child = <<>>]]
               /\ UNCHANGED result
          ELSE /\ loop' = [loop EXCEPT ![t][l] =
                             [@ EXCEPT !.pc = "raised", !.remaining = rem, !.child = <<>>]]
               /\ UNCHANGED <<error, status, result>>
     ELSE IF rem > 0
     THEN /\ loop' = [loop EXCEPT ![t][l] =
                        [@ EXCEPT !.remaining = rem, !.child = AskBatch(t, rem)]]
          /\ UNCHANGED <<error, status, result>>
     ELSE IF Finalizes(t)
     THEN /\ result' = [result EXCEPT ![t] =
                          Finalized(@, optBest'[t][loop[t][l].opt])]
          /\ UpdateStatus(t, "completed")
          /\ loop' = [loop EXCEPT ![t][l] =
                        [@ EXCEPT !.pc = "emit_completed", !.remaining = rem, !.child = <<>>]]
          /\ UNCHANGED error
     ELSE /\ loop' = [loop EXCEPT ![t][l] =
                        [@ EXCEPT !.pc = "done", !.remaining = rem, !.child = <<>>]]
          /\ UNCHANGED <<error, status, result>>
  /\ UNCHANGED <<tasks, stop_requested, pause_requested, optimizer,
                 optimization_task, budget, num_workers, nloops, optPaused,
                 evalCount, errEvents, doneEvents>>
  /\ UNCHANGED <<callVars, queueVars, wsVars, busVars, values, doneBest>>

\* task.py:247-253: the emit of the status change has returned;
\* OPTIMIZATION_ERROR is emitted.
LoopEmitError(t, l) ==
  /\ loop[t][l].pc = "emit_failed"
  /\ errEvents' = [errEvents EXCEPT ![t] = @ + 1]
  /\ loop' = [loop EXCEPT ![t][l].pc = "emit_error"]
  /\ UNCHANGED <<tasks, status, stop_requested, pause_requested, optimizer, error,
                 result, optimization_task, budget, num_workers, nloops, optPaused,
                 evalCount, iterEvents, doneEvents>>
  /\ UNCHANGED <<callVars, queueVars, wsVars, busVars, valVars>>

\* task.py:254-262: the exception is raised again and caught by the outer
\* handler, which records the failure a second time.
LoopReraise(t, l) ==
  /\ loop[t][l].pc = "emit_error"
  /\ IF RecordsFailure(t)
     THEN /\ error' = [error EXCEPT ![t] = ErrorText]
          /\ UpdateStatus(t, "failed")
          /\ loop' = [loop EXCEPT ![t][l].pc = "emit_failed2"]
     ELSE /\ loop' = [loop EXCEPT ![t][l].pc = "raised"]
          /\ UNCHANGED <<error, status>>
  /\ UNCHANGED <<tasks, stop_requested, pause_requested, optimizer,
                 result, optimization_task, budget, num_workers, nloops, optPaused,
                 evalCount, iterEvents, errEvents, doneEvents>>
  /\ UNCHANGED <<callVars, queueVars, wsVars, busVars, valVars>>

\* task.py:263: the loop ends with the exception.
LoopRaised(t, l) ==
  /\ loop[t][l].pc = "emit_failed2"
  /\ loop' = [loop EXCEPT ![t][l].pc = "raised"]
  /\ UNCHANGED <<tasks, status, stop_requested, pause_requested, optimizer, error,
                 result, optimization_task, budget, num_workers, nloops, optPaused,
                 evalCount, iterEvents, errEvents, doneEvents>>
  /\ UNCHANGED <<callVars, queueVars, wsVars, busVars, valVars>>

\* task.py:231-240: the emit of the status change has returned;
\* OPTIMIZATION_COMPLETED is emitted.
LoopEmitCompleted(t, l) ==
  /\ loop[t][l].pc = "emit_completed"
  /\ doneEvents' = [doneEvents EXCEPT ![t] = @ + 1]
  /\ doneBest' = [doneBest EXCEPT ![t] = result[t].best_value]
  /\ loop' = [loop EXCEPT ![t][l].pc = "emit_opt_completed"]
  /\ UNCHANGED <<tasks, status, stop_requested, pause_requested, optimizer, error,
                 result, optimization_task, budget, num_workers, nloops, optPaused,
                 evalCount, iterEvents, errEvents>>
  /\ UNCHANGED <<callVars, queueVars, wsVars, busVars, values, optBest>>

\* The loop returns.
LoopDone(t, l) ==
  /\ loop[t][l].pc = "emit_opt_completed"
  /\ loop' = [loop EXCEPT ![t][l].pc = "done"]
  /\ UNCHANGED <<tasks, status, stop_requested, pause_requested, optimizer, error,
                 result, optimization_task, budget, num_workers, nloops, optPaused,
                 evalCount, iterEvents, errEvents, doneEvents>>
  /\ UNCHANGED <<callVars, queueVars, wsVars, busVars, valVars>>

\* One step of an evaluation loop or of one of its evaluations.
LoopStep(t, l) ==
  \/ LoopStart(t, l)
  \/ LoopCancelled(t, l)
  \/ \E i \in 1..MaxWorkers : EvalStart(t, l, i)
  \/ \E i \in 1..MaxWorkers : EvalWoken(t, l, i)
  \/ LoopGather(t, l)
  \/ LoopEmitError(t, l)
  \/ LoopReraise(t, l)
  \/ LoopRaised(t, l)
  \/ LoopEmitCompleted(t, l)
  \/ LoopDone(t, l)

\* One step of a control call on a task object.
CallStep ==
  \/ \E t \in TaskIds : CallStart(t)
  \/ \E c \in CallIds : CallStartRunning(c)
  \/ \E c \in CallIds : CallStartLaunch(c)
  \/ \E t \in TaskIds : CallStop(t)
  \/ \E c \in CallIds : CallStopResume(c)
  \/ \E t \in TaskIds : CallPause(t)
  \/ \E t \in TaskIds : CallResume(t)
  \/ \E c \in CallIds : CallReturn(c)


\* ------------------------------------------------------------- scheduler
\* The pending tasks, latest submission first.
RECURSIVE NewestFirst(_)
NewestFirst(q) ==
  IF q = <<>> THEN <<>> ELSE Append(NewestFirst(Tail(q)), Head(q))
PendingNewestFirst ==
  NewestFirst(SelectSeq(tasks, LAMBDA t : status[t] = "pending"))

\* manager.py:173-176: the pending tasks, in the insertion order of _tasks.
PendingTasks == SelectSeq(tasks, LAMBDA t : status[t] = "pending")

\* manager.py:168-170: the loop picks nothing up, whatever the flag says.
NeverHeld == FALSE

\* manager.py:168-170: a paused queue makes the loop sleep and start over.
HoldsPickUp == is_paused

\* _process_tasks, manager.py:167-189, and the finally clauses of 224-230:
\* one pass from the head of the while loop to the next suspension point.
\* cur is _current_task on entry. The pick of the first pending task and the
\* status check of its start() are in the same step.
SchedHead(s, cur) ==
  IF q_stopped
  THEN /\ sched' = [sched EXCEPT ![s] = [pc |-> "emit_queue_stopped", t |-> 0]]
       /\ current_task' = 0
       /\ UNCHANGED <<result, startedBy, addVars>>
  ELSE IF HoldsPickUp \/ PendingTasks = <<>>
  THEN /\ sched' = [sched EXCEPT ![s] = [pc |-> "sleep", t |-> 0]]
       /\ current_task' = cur
       /\ UNCHANGED <<result, startedBy, addVars>>
  ELSE LET t == Head(PendingTasks) IN
       /\ nloops[t] + StartsInFlight(t) < MaxLoops
       /\ current_task' = t
       /\ StartCheck(t)
       /\ sched' = [sched EXCEPT ![s] = [pc |-> "start_emit_started", t |-> t]]
       /\ startedBy' = [startedBy EXCEPT ![s] = @ \cup {t}]
       /\ UNCHANGED addVars

\* manager.py:196-219: after the wait; TASK_COMPLETED / TASK_FAILED is
\* emitted for a completed / failed task, otherwise the loop goes straight
\* back to its head.
AfterWait(s, t) ==
  IF status[t] \in {"completed", "failed"}
  THEN /\ sched' = [sched EXCEPT ![s].pc = "emit_task_done"]
       /\ taskDoneEvents' = [taskDoneEvents EXCEPT ![t] = @ + 1]
       /\ UNCHANGED <<current_task, result, startedBy, parameter_config, added,
                      lastAdd>>
  ELSE SchedHead(s, 0)

\* manager.py:192: the condition under which the scheduler keeps waiting.
KeepsWaiting(st) == st = "running"

\* _process_tasks runs for the first time: emit of QUEUE_STARTED
\* (manager.py:158-164).
SchedBegin(s) ==
  /\ sched[s].pc = "created"
  /\ sched' = [sched EXCEPT ![s].pc = "emit_queue_started"]
  /\ UNCHANGED <<q_stopped, is_paused, current_task, processing_task, nscheds,
                 nobjs, stopping, startedBy, addVars>>
  /\ UNCHANGED <<taskVars, callVars, wsVars, busVars, valVars>>

\* The emit of QUEUE_STARTED or a sleep of 0.1 s returns (manager.py:167-189).
SchedLoop(s) ==
  /\ sched[s].pc \in {"emit_queue_started", "sleep"}
  /\ SchedHead(s, current_task)
  /\ UNCHANGED <<q_stopped, is_paused, processing_task, nscheds, nobjs, stopping>>
  /\ UNCHANGED <<tasks, status, stop_requested, pause_requested, optimizer, error,
                 optimization_task, budget, num_workers, nloops, loop, optPaused,
                 evalCount, iterEvents, errEvents, doneEvents>>
  /\ UNCHANGED <<callVars, wsVars, busVars, valVars>>

\* The scheduler's start(): task.py:92.
SchedStartRunning(s) ==
  /\ sched[s].pc = "start_emit_started"
  /\ StartRunning(sched[s].t)
  /\ sched' = [sched EXCEPT ![s].pc = "start_emit_running"]
  /\ UNCHANGED <<q_stopped, is_paused, current_task, processing_task, nscheds,
                 nobjs, stopping, startedBy, addVars>>
  /\ UNCHANGED <<tasks, stop_requested, pause_requested, optimizer, error, result,
                 optimization_task, budget, num_workers, nloops, loop, optPaused,
                 evalCount, iterEvents, errEvents, doneEvents>>
  /\ UNCHANGED <<callVars, wsVars, busVars, valVars>>

\* The scheduler's start() creates the loop and returns (task.py:93); the
\* scheduler reads the status for the first time (manager.py:192).
SchedStartLaunch(s) ==
  LET t == sched[s].t IN
  /\ sched[s].pc = "start_emit_running"
  /\ StartLaunch(t)
  /\ IF KeepsWaiting(status[t])
     THEN /\ sched' = [sched EXCEPT ![s].pc = "wait"]
          /\ UNCHANGED <<current_task, result, startedBy, addVars>>
     ELSE AfterWait(s, t)
  /\ UNCHANGED <<q_stopped, is_paused, processing_task, nscheds, nobjs, stopping>>
  /\ UNCHANGED <<tasks, status, stop_requested, pause_requested, optimizer, error,
                 budget, num_workers, optPaused, evalCount, iterEvents, errEvents,
                 doneEvents>>
  /\ UNCHANGED <<callVars, wsVars, busVars, valVars>>

\* A sleep of the wait loop returns and the status is no longer running
\* (manager.py:192-209). A poll that still reads running changes nothing.
SchedPoll(s) ==
  /\ sched[s].pc = "wait"
  /\ ~KeepsWaiting(status[sched[s].t])
  /\ AfterWait(s, sched[s].t)
  /\ UNCHANGED <<q_stopped, is_paused, processing_task, nscheds, nobjs, stopping>>
  /\ UNCHANGED <<tasks, status, stop_requested, pause_requested, optimizer, error,
                 optimization_task, budget, num_workers, nloops, loop, optPaused,
                 evalCount, iterEvents, errEvents, doneEvents>>
  /\ UNCHANGED <<callVars, wsVars, busVars, valVars>>

\* The emit of TASK_COMPLETED / TASK_FAILED returns (manager.py:218-219).
SchedTaskDone(s) ==
  /\ sched[s].pc = "emit_task_done"
  /\ SchedHead(s, 0)
  /\ UNCHANGED <<q_stopped, is_paused, processing_task, nscheds, nobjs, stopping>>
  /\ UNCHANGED <<tasks, status, stop_requested, pause_requested, optimizer, error,
                 optimization_task, budget, num_workers, nloops, loop, optPaused,
                 evalCount, iterEvents, errEvents, doneEvents>>
  /\ UNCHANGED <<callVars, wsVars, busVars, valVars>>

\* Task.cancel() on a scheduling loop. Outside the try block (not yet run, in
\* the emit of QUEUE_STARTED or of QUEUE_STOPPED) the CancelledError ends it
\* at once; inside, the finally clauses run first. A start() the scheduler
\* is suspended in is abandoned where it stands.
CancelSched(sc, s) ==
  IF sc[s].pc \in {"free", "ended", "cancelling", "cancelling_out"}
  THEN sc
  ELSE IF sc[s].pc \in {"created", "emit_queue_started", "emit_queue_stopped"}
  THEN [sc EXCEPT ![s].pc = "cancelling_out"]
  ELSE [sc EXCEPT ![s].pc = "cancelling"]

\* The CancelledError reaches the scheduling loop (manager.py:218-230).
SchedCancelled(s) ==
  /\ sched[s].pc \in {"cancelling", "cancelling_out"}
  /\ IF sched[s].pc = "cancelling"
     THEN /\ sched' = [sched EXCEPT ![s] = [pc |-> "emit_queue_stopped", t |-> 0]]
          /\ current_task' = 0
     ELSE /\ sched' = [sched EXCEPT ![s] = [pc |-> "ended", t |-> 0]]
          /\ UNCHANGED current_task
  /\ UNCHANGED <<q_stopped, is_paused, processing_task, nscheds, nobjs, stopping,
                 startedBy, addVars>>
  /\ UNCHANGED <<taskVars, callVars, wsVars, busVars, valVars>>

\* The emit of QUEUE_STOPPED returns and the scheduling loop ends
\* (manager.py:226-230).
SchedEnd(s) ==
  /\ sched[s].pc = "emit_queue_stopped"
  /\ sched' = [sched EXCEPT ![s].pc = "ended"]
  /\ UNCHANGED <<q_stopped, is_paused, current_task, processing_task, nscheds,
                 nobjs, stopping, startedBy, addVars>>
  /\ UNCHANGED <<taskVars, callVars, wsVars, busVars, valVars>>

\* ------------------------------------------------------------ event bus
\* _forward_task_event in a task's subscriber list (manager.py:280-283); the
\* other entries are the callbacks registered with the queue.
Forward == 0

\* add_task, manager.py:55-61: the new task's subscribers are the forwarder
\* and then every callback the queue has at that moment.
TaskSubscribers == <<Forward>> \o q_subscribers

\* EventEmitter.emit, events.py:139-145, over the list subs: each callback
\* is called with the event in turn; the forwarder emits it on the queue
\* (manager.py:283), which calls the queue's callbacks.
RECURSIVE Deliver(_, _, _)
Deliver(subs, ev, log) ==
  IF subs = <<>> THEN log
  ELSE LET s == Head(subs)
           after == IF s = Forward
                    THEN Deliver(q_subscribers, ev, log)
                    ELSE [log EXCEPT ![s] = Append(@, ev)]
       IN Deliver(Tail(subs), ev, after)

Subscribed == {q_subscribers[i] : i \in DOMAIN q_subscribers}

\* queue.add_subscriber(callback), events.py:125-131
AddSubscriber(s) ==
  /\ s \notin Subscribed
  /\ q_subscribers' = Append(q_subscribers, s)
  /\ UNCHANGED <<t_subscribers, emitted, delivered, emitVars, valVars>>
  /\ UNCHANGED <<taskVars, callVars, queueVars, wsVars>>

\* A task object emits its next event (task.py:89 and the other emits of
\* the task): events.py:133-145 with the task's own subscriber list.
TaskEmit(t) ==
  /\ t <= nobjs
  /\ emitted[t] < MaxEmits
  /\ emitted' = [emitted EXCEPT ![t] = @ + 1]
  /\ delivered' = Deliver(t_subscribers[t], <<t, emitted[t] + 1>>, delivered)
  /\ UNCHANGED <<q_subscribers, t_subscribers, emitVars, valVars>>
  /\ UNCHANGED <<taskVars, callVars, queueVars, wsVars>>

\* ---------------------------------------------------------- EventEmitter
\* One EventEmitter (events.py:118-145), the callbacks registered with it
\* and the coroutines inside emit(). A callback is a plain function
\* ("sync"), a coroutine function that finishes without suspending
\* ("async"), or one that awaits something that is not ready ("suspends");
\* each may raise when it finishes.
Kinds == {"sync", "async", "suspends"}
Behaviours == [kind : Kinds, raises : BOOLEAN]

NoEmit == [pc |-> "none", i |-> 0, ev |-> 0, snap |-> <<>>, log |-> <<>>]

\* An emit() that lets a callback's exception out.
EscapesIfRaised(b) == b.raises

\* events.py:140-145: whether the exception of a callback leaves emit();
\* "except Exception" catches it and logs it.
Escapes(b) == FALSE

\* events.py:139-145: the for loop over the live list subs from position
\* em.i on, until a callback suspends or the list ends. Each callback is
\* called with the event; log is the callbacks this emit has called.
RECURSIVE RunHandlers(_, _, _)
RunHandlers(em, subs, cl) ==
  IF em.i > Len(subs)
  THEN [em |-> [em EXCEPT !.pc = "returned"], called |-> cl]
  ELSE LET h == subs[em.i]
           cl2 == [cl EXCEPT ![h] = Append(@, em.ev)]
           em2 == [em EXCEPT !.log = Append(@, h)]
       IN IF behaviour[h].kind = "suspends"
          THEN [em |-> [em2 EXCEPT !.pc = "await"], called |-> cl2]
          ELSE IF behaviour[h].raises /\ Escapes(behaviour[h])
          THEN [em |-> [em2 EXCEPT !.pc = "raised"], called |-> cl2]
          ELSE RunHandlers([em2 EXCEPT !.i = @ + 1], subs, cl2)

\* add_subscriber(callback), events.py:125-131, with a callback that is not
\* registered yet.
Subscribe(h) ==
  /\ \A i \in DOMAIN subscribers : subscribers[i] # h
  /\ subscribers' = Append(subscribers, h)
  /\ UNCHANGED <<behaviour, emitting, called, nevents>>
  /\ UNCHANGED <<q_subscribers, t_subscribers, emitted, delivered, valVars>>
  /\ UNCHANGED <<taskVars, callVars, queueVars, wsVars>>

\* A state of the emitter's owner changes and emit(event) is called for it
\* (task.py:62-71): the loop runs up to its first suspension.
EmitCall(e) ==
  LET em == [pc |-> "loop", i |-> 1, ev |-> nevents + 1,
             snap |-> subscribers, log |-> <<>>]
      r == RunHandlers(em, subscribers, called)
  IN
  /\ e = nevents + 1
  /\ emitting[e].pc = "none"
  /\ nevents' = nevents + 1
  /\ emitting' = [emitting EXCEPT ![e] = r.em]
  /\ called' = r.called
  /\ UNCHANGED <<subscribers, behaviour>>
  /\ UNCHANGED <<q_subscribers, t_subscribers, emitted, delivered, valVars>>
  /\ UNCHANGED <<taskVars, callVars, queueVars, wsVars>>

\* The callback an emit() awaits finishes (events.py:143-145): the loop goes
\* on with the next callback of the list.
EmitResume(e) ==
  LET em == emitting[e]
      h == subscribers[em.i]
      r == RunHandlers([em EXCEPT !.pc = "loop", !.i = @ + 1], subscribers, called)
  IN
  /\ em.pc = "await"
  /\ IF behaviour[h].raises /\ Escapes(behaviour[h])
     THEN /\ emitting' = [emitting EXCEPT ![e].pc = "raised"]
          /\ UNCHANGED called
     ELSE /\ emitting' = [emitting EXCEPT ![e] = r.em]
          /\ called' = r.called
  /\ UNCHANGED <<subscribers, behaviour, nevents>>
  /\ UNCHANGED <<q_subscribers, t_subscribers, emitted, delivered, valVars>>
  /\ UNCHANGED <<taskVars, callVars, queueVars, wsVars>>

\* ------------------------------------------------------------ queue API
\* The environment issues one of the queue's control calls.
QueueControl ==
  /\ callsLeft > 0
  /\ callsLeft' = callsLeft - 1
  /\ UNCHANGED <<calls, lastOutcome, wsVars, busVars, valVars>>

\* What add_task is called with: the form of config (a mapping, or the
\* JSON text that OptimizationTask.__init__ also accepts) and its task_id.
Forms == {"dict", "str"}
NoAdd == [id |-> 0, form |-> "dict", outcome |-> "none", n |-> 0]
Added(id, f) ==
  [id |-> id, form |-> f, outcome |-> "returned", n |-> lastAdd.n + 1]
AddRaised(id, f, e) == [id |-> id, form |-> f, outcome |-> e, n |-> lastAdd.n + 1]

\* manager.py:66-70: no event is emitted for the new task.
NoTaskAdded(t) == <<>>

\* manager.py:66-70: the TASK_ADDED event of the new task.
TaskAdded(t) == <<t>>

\* add_task, manager.py:35-69, with a mapping whose task id is not yet in
\* the queue: the task object is built from the mapping as it is
\* (task.py:29, 38-39), stored, subscribed to, and TASK_ADDED is emitted.
AddTask ==
  /\ nobjs < NumTasks
  /\ nobjs' = nobjs + 1
  /\ tasks' = Append(tasks, nobjs + 1)
  /\ t_subscribers' = [t_subscribers EXCEPT ![nobjs + 1] = TaskSubscribers]
  /\ added' = added \o TaskAdded(nobjs + 1)
  /\ lastAdd' = Added(nobjs + 1, "dict")
  /\ UNCHANGED <<q_subscribers, emitted, delivered, emitVars, valVars>>
  /\ UNCHANGED <<q_stopped, is_paused, current_task, processing_task, nscheds,
                 sched, stopping, startedBy, parameter_config, taskDoneEvents>>
  /\ UNCHANGED <<status, stop_requested, pause_requested, optimizer, error, result,
                 optimization_task, budget, num_workers, nloops, loop, optPaused,
                 evalCount, iterEvents, errEvents, doneEvents>>
  /\ UNCHANGED <<callVars, wsVars>>

\* start_processing, manager.py:103-107: the flags are reset and a scheduling
\* loop is created.
StartProcessingBody ==
  /\ q_stopped' = FALSE
  /\ is_paused' = FALSE
  /\ current_task' = 0
  /\ nscheds' = nscheds + 1
  /\ sched' = [sched EXCEPT ![nscheds + 1] = [pc |-> "created", t |-> 0]]
  /\ processing_task' = nscheds + 1
  /\ UNCHANGED <<nobjs, stopping, startedBy, addVars>>

\* start_processing, manager.py:97-107, when the queue is not processing
\* (is_processing is "not _stopped", manager.py:26-28) and fewer than k
\* scheduling loops have been created so far.
StartProcessingWithin(k) ==
  /\ q_stopped
  /\ nscheds < k
  /\ StartProcessingBody
  /\ UNCHANGED <<taskVars, callVars, wsVars, busVars, valVars>>

StartProcessing == StartProcessingWithin(MaxScheds)

\* stop_processing, manager.py:124-128: the reset once the scheduling loop
\* has been awaited.
StopReset ==
  /\ is_paused' = FALSE
  /\ current_task' = 0
  /\ tasks' = <<>>

\* stop_processing, manager.py:109-128, when the queue is processing.
StopProcessing ==
  LET p == processing_task
      sc == IF p = 0 THEN sched ELSE CancelSched(sched, p)
  IN
  /\ ~q_stopped
  /\ q_stopped' = TRUE
  /\ sched' = sc
  /\ IF p # 0 /\ sc[p].pc # "ended"
     THEN /\ stopping' = [stopping EXCEPT ![p] = TRUE]
          /\ UNCHANGED <<is_paused, current_task, tasks, processing_task>>
     ELSE /\ processing_task' = 0
          /\ StopReset
          /\ UNCHANGED stopping
  /\ UNCHANGED <<nscheds, nobjs, startedBy, addVars>>
  /\ UNCHANGED <<status, stop_requested, pause_requested, optimizer, error, result,
                 optimization_task, budget, num_workers, nloops, loop, optPaused,
                 evalCount, iterEvents, errEvents, doneEvents>>
  /\ QueueControl

\* stop_processing resumes: the scheduling loop it awaits has ended
\* (manager.py:119-128).
StopProcessingDone(s) ==
  /\ stopping[s]
  /\ sched[s].pc = "ended"
  /\ stopping' = [stopping EXCEPT ![s] = FALSE]
  /\ processing_task' = 0
  /\ StopReset
  /\ UNCHANGED <<q_stopped, nscheds, sched, nobjs, startedBy, addVars>>
  /\ UNCHANGED <<status, stop_requested, pause_requested, optimizer, error, result,
                 optimization_task, budget, num_workers, nloops, loop, optPaused,
                 evalCount, iterEvents, errEvents, doneEvents>>
  /\ UNCHANGED <<callVars, wsVars, busVars, valVars>>

\* pause_processing, manager.py:130-141
PauseProcessing ==
  /\ ~q_stopped /\ ~is_paused
  /\ is_paused' = TRUE
  /\ UNCHANGED <<q_stopped, current_task, processing_task, nscheds, sched, nobjs,
                 stopping, startedBy, addVars>>
  /\ UNCHANGED taskVars
  /\ QueueControl

\* resume_processing, manager.py:143-154
ResumeProcessing ==
  /\ ~q_stopped /\ is_paused
  /\ is_paused' = FALSE
  /\ UNCHANGED <<q_stopped, current_task, processing_task, nscheds, sched, nobjs,
                 stopping, startedBy, addVars>>
  /\ UNCHANGED taskVars
  /\ QueueControl

\* One step of a scheduling loop.
SchedStep(s) ==
  \/ SchedBegin(s)
  \/ SchedLoop(s)
  \/ SchedStartRunning(s)
  \/ SchedStartLaunch(s)
  \/ SchedPoll(s)
  \/ SchedTaskDone(s)
  \/ SchedCancelled(s)
  \/ SchedEnd(s)

\* One call of the queue's own control methods.
QueueCall ==
  \/ AddTask
  \/ StartProcessing
  \/ StopProcessing
  \/ \E s \in SchedIds : StopProcessingDone(s)
  \/ PauseProcessing
  \/ ResumeProcessing


\* ---------------------------------------------------- connection registry
\* WebSocketManager.__init__, websocket_manager.py:27
buffer_size == 100

\* The n-th event the queue forwards: Event.__init__, events.py:95-108.
Event(n) == [type |-> "TASK_EVENT", task_id |-> n, data |-> n]

\* websocket_manager.py:129 reads event.timestamp.
HasTimestamp(ev) == "timestamp" \in DOMAIN ev

\* websocket_manager.py:126-131
EventData(ev) ==
  [type |-> ev.type, task_id |-> ev.task_id, timestamp |-> ev.timestamp,
   data |-> ev.data]

\* websocket_manager.py:134-136: append, and drop the oldest beyond the
\* capacity.
Buffered(buf, d) ==
  LET b == Append(buf, d) IN
  IF Len(b) > buffer_size THEN Tail(b) ELSE b

\* What a socket receives: a replayed event is sent as it is buffered
\* (websocket_manager.py:67), a broadcast one wrapped by create_api_response
\* (141-144), like the router's CONNECTED and INITIAL_STATE (router.py:235-249).
Raw(d) == [kind |-> "event", wrapped |-> FALSE, ev |-> d.task_id]
Wrapped(d) == [kind |-> "event", wrapped |-> TRUE, ev |-> d.task_id]
Notice(k) == [kind |-> k, wrapped |-> TRUE, ev |-> 0]
\* router.py:235-238: CONNECTED carries the client id.
ConnectedNotice(c) == [kind |-> "connected", wrapped |-> TRUE, ev |-> c]
\* websocket_manager.py:262: the probe of the stale-connection sweep.
Ping == [kind |-> "ping", wrapped |-> FALSE, ev |-> 0]

\* Senders: 0 is _handle_queue_event broadcasting, c > 0 is the endpoint
\* coroutine of client c's latest socket.
Idle == [pc |-> "idle", idx |-> 0, msg |-> Notice("none"), todo |-> <<>>, size |-> 0]

Connected == {c \in ClientIds : connections[c] # 0}

\* The connected clients in the order of the dictionary.
RECURSIVE InOrder(_)
InOrder(S) ==
  IF S = {} THEN <<>>
  ELSE LET c == CHOOSE x \in S : \A y \in S : x <= y IN <<c>> \o InOrder(S \ {c})

\* connect, websocket_manager.py:61-69: the socket is registered, then the
\* buffer is replayed, one suspending send per event; after an empty replay
\* the endpoint sends CONNECTED (router.py:235).
Register(c, sock) ==
  /\ connections' = [connections EXCEPT ![c] = sock]
  /\ seenAtConnect' = [seenAtConnect EXCEPT ![c] = forwarded]
  /\ sender' = [sender EXCEPT ![c] =
                  IF event_buffer = <<>>
                  THEN [Idle EXCEPT !.pc = "confirm", !.msg = ConnectedNotice(c)]
                  ELSE [Idle EXCEPT !.pc = "replay", !.idx = 1,
                                    !.msg = Raw(event_buffer[1])]]

\* A client opens a socket: the endpoint accepts it and calls connect
\* (router.py:231-232, websocket_manager.py:44-69). An older socket of the
\* same client is closed first, which suspends.
WsConnect(c) ==
  /\ sender[c].pc \in {"idle", "open"}
  /\ nsockets[c] < MaxSockets
  /\ nsockets' = [nsockets EXCEPT ![c] = @ + 1]
  /\ received' = [received EXCEPT ![c] = <<>>]
  /\ IF connections[c] # 0
     THEN /\ sender' = [sender EXCEPT ![c] = [Idle EXCEPT !.pc = "closing_old"]]
          /\ UNCHANGED <<connections, seenAtConnect>>
     ELSE Register(c, nsockets[c] + 1)
  /\ closed' = IF connections[c] # 0 THEN closed \cup {<<c, connections[c]>>}
               ELSE closed
  /\ UNCHANGED <<msgVars, connecting, sweep, event_buffer, forwarded, connVars>>
  /\ UNCHANGED <<taskVars, callVars, queueVars, busVars, valVars>>

\* The close of the older socket returns (websocket_manager.py:56-69).
WsConnectClosed(c) ==
  /\ sender[c].pc = "closing_old"
  /\ Register(c, nsockets[c])
  /\ UNCHANGED <<msgVars, connecting, closed, sweep, event_buffer, forwarded, nsockets, received, connVars>>
  /\ UNCHANGED <<taskVars, callVars, queueVars, busVars, valVars>>

\* connect(websocket, client_id), websocket_manager.py:44-62, called for a
\* new socket of client c while other connect calls for the same id may be
\* suspended. With an entry for the id, close() is called on the socket it
\* holds: the call suspends there, or close() raises at once on a socket
\* that has been closed before and the handler of 58-59 logs it, so that
\* line 61 registers the new socket within the step. The buffer is empty
\* and the replay of 64-69 sends nothing.
ConnectCall(c) ==
  LET k == nsockets[c] + 1
      old == connections[c]
  IN
  /\ nsockets[c] < MaxHandles
  /\ event_buffer = <<>>
  /\ nsockets' = [nsockets EXCEPT ![c] = k]
  /\ IF old = 0
     THEN /\ connections' = [connections EXCEPT ![c] = k]
          /\ UNCHANGED <<connecting, closed>>
     ELSE /\ closed' = closed \cup {<<c, old>>}
          /\ \/ /\ connecting' = connecting \cup {<<c, k>>}
                /\ UNCHANGED connections
             \/ /\ <<c, old>> \in closed
                /\ connections' = [connections EXCEPT ![c] = k]
                /\ UNCHANGED connecting
  /\ UNCHANGED <<msgVars, sweep, event_buffer, forwarded, sender, received,
                 seenAtConnect, connVars>>
  /\ UNCHANGED <<taskVars, callVars, queueVars, busVars, valVars>>

\* The close() a connect call was suspended in returns,
\* websocket_manager.py:57-62: the entry the registry holds for the id by
\* now is deleted (a missing entry raises KeyError, logged at 59) and the
\* socket of this call is registered.
ConnectResume(c, k) ==
  /\ <<c, k>> \in connecting
  /\ connecting' = connecting \ {<<c, k>>}
  /\ connections' = [connections EXCEPT ![c] = k]
  /\ UNCHANGED <<msgVars, sweep, closed, event_buffer, forwarded, nsockets, sender,
                 received, seenAtConnect, connVars>>
  /\ UNCHANGED <<taskVars, callVars, queueVars, busVars, valVars>>

\* _handle_queue_event, websocket_manager.py:118-150, up to its first
\* suspension: the conversion of 126-131 raises for an event without a
\* timestamp and the handler of 148-149 logs it; otherwise the event is
\* buffered and the broadcast begins.
WsHandleQueueEvent ==
  LET ev == Event(forwarded + 1) IN
  /\ forwarded < MaxEvents
  /\ sender[0].pc = "idle"
  /\ forwarded' = forwarded + 1
  /\ IF HasTimestamp(ev)
     THEN LET d == EventData(ev)
              todo == InOrder(Connected)
          IN
          /\ event_buffer' = Buffered(event_buffer, d)
          /\ sender' = [sender EXCEPT ![0] =
                          IF todo = <<>> THEN Idle
                          ELSE [pc |-> "broadcast", idx |-> 0, msg |-> Wrapped(d),
                                todo |-> todo, size |-> Cardinality(Connected)]]
     ELSE UNCHANGED <<event_buffer, sender>>
  /\ UNCHANGED <<msgVars, connecting, closed, sweep, connections, nsockets, received, seenAtConnect, connVars>>
  /\ UNCHANGED <<taskVars, callVars, queueVars, busVars, valVars>>

\* The sender's continuation after its send_json returned.
\* Endpoint: the next buffered event (the for loop of websocket_manager.py:65
\* walks the live list), then CONNECTED, then INITIAL_STATE, then the message
\* loop. Broadcast: the next connection; a dictionary that changed size ends
\* the iteration of websocket_manager.py:139 with a RuntimeError, logged at 149.
AfterSend(k) ==
  LET sd == sender[k] IN
  IF k = 0
  THEN IF Len(sd.todo) = 1 \/ Cardinality(Connected) # sd.size
       THEN Idle
       ELSE [sd EXCEPT !.todo = Tail(sd.todo)]
  ELSE IF sd.pc = "replay"
  THEN IF sd.idx < Len(event_buffer)
       THEN [sd EXCEPT !.idx = sd.idx + 1, !.msg = Raw(event_buffer[sd.idx + 1]),
                       !.todo = <<>>]
       ELSE [Idle EXCEPT !.pc = "confirm", !.msg = ConnectedNotice(k)]
  ELSE IF sd.pc = "confirm"
  THEN [Idle EXCEPT !.pc = "initial_state", !.msg = Notice("initial_state")]
  ELSE [Idle EXCEPT !.pc = "open"]

\* The client a sender's message goes to, and the socket: the endpoint's own,
\* or the one the registry holds for the client.
Target(k) == IF k = 0 THEN Head(sender[0].todo) ELSE k
SockOf(k) == IF k = 0 THEN connections[Target(0)] ELSE nsockets[k]

\* A send raises on a socket whose peer has gone or which the manager has
\* closed: replaced by connect (websocket_manager.py:56) or disconnected (85).
Fails(c, sock) ==
  \/ sock = 0
  \/ sock < nsockets[c]
  \/ <<c, sock>> \in dead \cup ended

\* The probes sent on an endpoint's socket while its own send was under
\* way: the socket delivers them after that message.
Probes(k) == IF k = 0 THEN <<>> ELSE sender[k].todo

\* A send_json returns or raises. A message that was sent has reached the
\* socket; the log of a client is that of its latest socket. A failed replay
\* or broadcast send is logged and the loop goes on (websocket_manager.py:
\* 68-69, 145-147); a failed CONNECTED or INITIAL_STATE send ends the
\* endpoint (router.py:293-298). After INITIAL_STATE the endpoint starts the
\* queue if this is the only connection (router.py:251-254) and enters its
\* message loop.
WsSendDone(k) ==
  LET c == Target(k)
      ok == ~Fails(c, SockOf(k))
      last == sender[k].pc \in {"confirm", "initial_state"}
  IN
  /\ sender[k].pc \in {"broadcast", "replay", "confirm", "initial_state"}
  /\ received' = IF ok /\ SockOf(k) = nsockets[c]
                 THEN [received EXCEPT ![c] = Append(@, sender[k].msg) \o Probes(k)]
                 ELSE received
  /\ sender' = [sender EXCEPT ![k] =
                  IF ~ok /\ last THEN [Idle EXCEPT !.pc = "failed"]
                  ELSE AfterSend(k)]
  /\ IF /\ ok /\ k # 0 /\ sender[k].pc = "initial_state"
        /\ Cardinality(Connected) = 1
        /\ q_stopped /\ nscheds < MaxScheds
     THEN StartProcessingBody
     ELSE UNCHANGED queueVars
  /\ UNCHANGED <<msgVars, connecting, closed, sweep, connections, event_buffer, forwarded, nsockets, seenAtConnect,
                 connVars>>
  /\ UNCHANGED <<taskVars, callVars, busVars, valVars>>

\* The peer of a client's latest socket goes away.
PeerGone(c) ==
  /\ nsockets[c] >= 1
  /\ <<c, nsockets[c]>> \notin dead \cup ended
  /\ dead' = dead \cup {<<c, nsockets[c]>>}
  /\ UNCHANGED <<msgVars, connecting, closed, sweep, connections, event_buffer, forwarded, nsockets, sender, received,
                 seenAtConnect, ended, closing>>
  /\ UNCHANGED <<taskVars, callVars, queueVars, busVars, valVars>>

\* A disconnect that removes whatever the registry holds for the client.
RemovesAnyHandle(stored, sock) == stored # 0

\* disconnect, websocket_manager.py:78-81: the entry goes only if the
\* registry holds this very socket for the client.
DisconnectRemoves(stored, sock) == stored = sock

\* disconnect(websocket, client_id) up to its suspension in close(),
\* websocket_manager.py:78-85, called by the endpoint of socket sock.
Disconnect(c, sock) ==
  /\ connections' = IF DisconnectRemoves(connections[c], sock)
                    THEN [connections EXCEPT ![c] = 0]
                    ELSE connections
  /\ closing' = closing \cup {<<c, sock>>}
  /\ closed' = closed \cup {<<c, sock>>}

\* The endpoint of a socket leaves its message loop on WebSocketDisconnect
\* and calls disconnect (router.py:280-283): the peer has gone, or connect()
\* has closed the socket to replace it.
WsDisconnect(c, sock) ==
  /\ sock \in 1..nsockets[c]
  /\ <<c, sock>> \notin ended
  /\ \/ sock < nsockets[c]
     \/ sender[c].pc = "open" /\ <<c, sock>> \in dead
  /\ Disconnect(c, sock)
  /\ ended' = ended \cup {<<c, sock>>}
  /\ sender' = IF sock = nsockets[c] THEN [sender EXCEPT ![c] = Idle] ELSE sender
  /\ UNCHANGED <<msgVars, connecting, sweep, event_buffer, forwarded, nsockets, received, seenAtConnect, dead>>
  /\ UNCHANGED <<taskVars, callVars, queueVars, busVars, valVars>>

\* An endpoint whose CONNECTED or INITIAL_STATE send raised
\* (router.py:293-303), or whose message loop was left on an error in the
\* handling of a message (router.py:284-295): it calls disconnect only if
\* the registry still holds the socket (router.py:299-303).
WsEndpointFailed(c) ==
  /\ sender[c].pc \in {"failed", "open"}
  /\ <<c, nsockets[c]>> \notin ended
  /\ sender' = [sender EXCEPT ![c] = Idle]
  /\ ended' = ended \cup {<<c, nsockets[c]>>}
  /\ IF connections[c] = nsockets[c]
     THEN Disconnect(c, nsockets[c])
     ELSE UNCHANGED <<connections, closing, closed>>
  /\ UNCHANGED <<msgVars, connecting, sweep, event_buffer, forwarded, nsockets, received, seenAtConnect, dead>>
  /\ UNCHANGED <<taskVars, callVars, queueVars, busVars, valVars>>

\* cleanup_stale_connections, websocket_manager.py:256-269, run by the
\* periodic_cleanup task an endpoint creates before its message loop
\* (router.py:257, 305-310). The for loop of line 259 walks the live
\* dictionary: todo are the clients it has yet to come to, sock the socket
\* of the item it is at, size the length of the dictionary when the
\* iteration began, stale the list of line 258.
NoSweep == [pc |-> "idle", todo |-> <<>>, sock |-> 0, size |-> 0, stale |-> <<>>]

\* The sweep begins and takes the first item; its send_json suspends.
SweepBegin ==
  LET todo == InOrder(Connected) IN
  /\ sweep.pc = "idle"
  /\ \E b \in ClientIds : sender[b].pc = "open"
  /\ todo # <<>>
  /\ sweep' = [pc |-> "ping", todo |-> todo, sock |-> connections[Head(todo)],
               size |-> Cardinality(Connected), stale |-> <<>>]
  /\ UNCHANGED <<msgVars, connecting, closed, connections, event_buffer, forwarded, nsockets, sender,
                 received, seenAtConnect, connVars>>
  /\ UNCHANGED <<taskVars, callVars, queueVars, busVars, valVars>>

\* The iteration goes on after the item of client c: next() of a dictionary
\* whose length has changed raises RuntimeError, also after the last item,
\* which ends the sweep with no stale socket disconnected (nothing catches
\* it before periodic_cleanup, router.py:312-314); clients
\* that have left the dictionary meanwhile are not come to.
SweepNext(stale) ==
  LET rest == SelectSeq(Tail(sweep.todo), LAMBDA x : connections[x] # 0) IN
  IF Cardinality(Connected) # sweep.size
  THEN NoSweep
  ELSE IF rest # <<>>
  THEN [sweep EXCEPT !.todo = rest, !.sock = connections[Head(rest)],
                     !.stale = stale]
  ELSE IF stale # <<>>
  THEN [NoSweep EXCEPT !.pc = "disconnect", !.stale = stale]
  ELSE NoSweep

\* The probe of one item (websocket_manager.py:260-265). It is sent on the
\* socket the item holds, after whatever the endpoint is sending on it; a
\* socket on which the probe fails is put on the stale list.
CleanupPing(c) ==
  LET sock == sweep.sock
      failed == Fails(c, sock)
  IN
  /\ sweep.pc = "ping"
  /\ c = Head(sweep.todo)
  /\ Len(received[c]) + Len(sender[c].todo) < MaxLog
  /\ IF failed \/ sock # nsockets[c]
     THEN UNCHANGED <<received, sender>>
     ELSE IF sender[c].pc \in {"replay", "confirm", "initial_state"}
     THEN /\ sender' = [sender EXCEPT ![c].todo = Append(@, Ping)]
          /\ UNCHANGED received
     ELSE /\ received' = [received EXCEPT ![c] = Append(@, Ping)]
          /\ UNCHANGED sender
  /\ sweep' = SweepNext(IF failed THEN Append(sweep.stale, <<c, sock>>)
                        ELSE sweep.stale)
  /\ UNCHANGED <<msgVars, connecting, closed, connections, event_buffer, forwarded, nsockets,
                 seenAtConnect, connVars>>
  /\ UNCHANGED <<taskVars, callVars, queueVars, busVars, valVars>>

\* websocket_manager.py:268-269: disconnect is called for the next stale
\* item and suspends in close().
SweepDisconnect ==
  /\ sweep.pc = "disconnect"
  /\ Head(sweep.stale) \notin closing
  /\ Disconnect(Head(sweep.stale)[1], Head(sweep.stale)[2])
  /\ sweep' = [sweep EXCEPT !.pc = "closing"]
  /\ UNCHANGED <<msgVars, connecting, event_buffer, forwarded, nsockets, sender, received,
                 seenAtConnect, dead, ended>>
  /\ UNCHANGED <<taskVars, callVars, queueVars, busVars, valVars>>

\* That disconnect has returned: the next stale item, or the end of the sweep.
SweepClosed ==
  /\ sweep.pc = "closing"
  /\ Head(sweep.stale) \notin closing
  /\ sweep' = IF Len(sweep.stale) = 1 THEN NoSweep
              ELSE [sweep EXCEPT !.pc = "disconnect", !.stale = Tail(@)]
  /\ UNCHANGED <<msgVars, connecting, closed, connections, event_buffer, forwarded, nsockets, sender,
                 received, seenAtConnect, connVars>>
  /\ UNCHANGED <<taskVars, callVars, queueVars, busVars, valVars>>

\* A disconnect that returns from close() and leaves the queue as it is.
DisconnectClosedNeverPauses(c, sock) ==
  /\ <<c, sock>> \in closing
  /\ closing' = closing \ {<<c, sock>>}
  /\ UNCHANGED queueVars
  /\ UNCHANGED <<msgVars, connecting, closed, sweep, connections, event_buffer, forwarded, nsockets, sender, received,
                 seenAtConnect, dead, ended>>
  /\ UNCHANGED <<taskVars, callVars, busVars, valVars>>

\* disconnect resumes after close(), websocket_manager.py:89-92: with no
\* connection left the queue is paused (manager.py:130-141).
WsDisconnectClosed(c, sock) ==
  /\ <<c, sock>> \in closing
  /\ closing' = closing \ {<<c, sock>>}
  /\ IF Connected = {} /\ ~q_stopped /\ ~is_paused
     THEN /\ is_paused' = TRUE
          /\ UNCHANGED <<q_stopped, current_task, processing_task, nscheds, sched,
                         nobjs, stopping, startedBy, addVars>>
     ELSE UNCHANGED queueVars
  /\ UNCHANGED <<msgVars, connecting, closed, sweep, connections, event_buffer, forwarded, nsockets, sender, received,
                 seenAtConnect, dead, ended>>
  /\ UNCHANGED <<taskVars, callVars, busVars, valVars>>

\* What the queue's by-id method hands back for a known id, given how the
\* task's method ended. start_task returns True after start() and False when
\* it raised (manager.py:294-306); stop_task, pause_task and resume_task
\* return the task method's own value, which is None, and let its exception
\* through (manager.py:246, 262, 278).
QueueResult(op, kind) ==
  IF op = "start"
  THEN IF kind \in {"ret", "ret_noop"} THEN "True" ELSE "False"
  ELSE IF kind \in {"ret", "ret_noop"} THEN "None" ELSE "raises"

\* -------------------------------------------------------- client messages
\* handle_client_message, websocket_manager.py:152-231, for the messages of
\* one endpoint, which handles them one after the other (router.py:260-278).
\* task_id 0 and action "none" stand for a missing field; a task id that is
\* not in the queue's _tasks is unknown to it.
Actions == {"start", "pause", "resume", "stop"}
Messages ==
  [type : {"REQUEST_STATE", "BOGUS"}, task_id : {0}, action : {"none"}]
    \cup [type : {"CONTROL_TASK"}, task_id : 0..NumTasks,
          action : Actions \cup {"none", "bogus"}]

NoMessage == [type |-> "none", task_id |-> 0, action |-> "none",
              pc |-> "none", known |-> FALSE, left |-> 0]

InQueue(t) == \E i \in DOMAIN tasks : tasks[i] = t

\* websocket_manager.py:163-219: the reply to a message that needs no call
\* of a task method, "" if the task method is called. For an id the queue
\* does not know, start_task / pause_task / resume_task / stop_task return
\* False (manager.py:241-243, 257-259, 273-275, 296-298) and the
\* acknowledgement of 194-202 follows.
ImmediateReply(m) ==
  IF m.type = "CONTROL_TASK"
  THEN IF m.task_id = 0 \/ m.action = "none" THEN "error"
       ELSE IF m.action \notin Actions THEN "error"
       ELSE IF ~InQueue(m.task_id) THEN "TASK_CONTROL"
       ELSE ""
  ELSE IF m.type = "REQUEST_STATE" THEN "STATE_UPDATE"
  ELSE "error"

\* websocket_manager.py:178-202 and 221-228: the reply after the queue's
\* method ended as res: the acknowledgement, or the error envelope of the
\* except clause if it raised.
ReplyAfter(res) == IF res = "raises" THEN "error" ELSE "TASK_CONTROL"

\* A message arrives and is handled up to its reply or up to the call of
\* the task's method.
MsgReceive(m) ==
  /\ handling.pc \in {"none", "done"}
  /\ \A c \in CallIds : calls[c] = NoCall
  /\ IF ImmediateReply(m) # ""
     THEN /\ handling' = [type |-> m.type, task_id |-> m.task_id, action |-> m.action,
                          pc |-> "done", known |-> FALSE, left |-> callsLeft]
          /\ replies' = <<ImmediateReply(m)>>
     ELSE /\ CanCall(m.task_id)
          /\ handling' = [type |-> m.type, task_id |-> m.task_id, action |-> m.action,
                          pc |-> "call", known |-> TRUE, left |-> callsLeft]
          /\ replies' = <<>>
  /\ UNCHANGED <<connections, event_buffer, forwarded, nsockets, sender, received,
                 seenAtConnect, connVars, sweep, raceVars>>
  /\ UNCHANGED <<taskVars, callVars, queueVars, busVars, valVars>>

\* websocket_manager.py:178-185: the queue's method hands over to the task's.
MsgCall ==
  /\ handling.pc = "call"
  /\ callsLeft = handling.left
  /\ \/ handling.action = "start" /\ CallStart(handling.task_id)
     \/ handling.action = "pause" /\ CallPause(handling.task_id)
     \/ handling.action = "resume" /\ CallResume(handling.task_id)
     \/ handling.action = "stop" /\ CallStop(handling.task_id)

\* The queue's method has ended: the reply is sent
\* (websocket_manager.py:194-202, 221-228).
MsgReply ==
  /\ handling.pc = "call"
  /\ callsLeft < handling.left
  /\ \A c \in CallIds : calls[c] = NoCall
  /\ handling' = [handling EXCEPT !.pc = "done"]
  /\ replies' = Append(replies, ReplyAfter(QueueResult(lastOutcome.op, lastOutcome.kind)))
  /\ UNCHANGED <<connections, event_buffer, forwarded, nsockets, sender, received,
                 seenAtConnect, connVars, sweep, raceVars>>
  /\ UNCHANGED <<taskVars, callVars, queueVars, busVars, valVars>>

vars == <<taskVars, callVars, queueVars, wsVars, busVars, valVars>>

\* ------------------------------------------------ a task object on its own
InitTaskVars ==
  /\ status = [t \in TaskIds |-> "pending"]
  /\ stop_requested = [t \in TaskIds |-> FALSE]
  /\ pause_requested = [t \in TaskIds |-> FALSE]
  /\ optimizer = [t \in TaskIds |-> 0]
  /\ error = [t \in TaskIds |-> "none"]
  /\ result = [t \in TaskIds |-> NoResult]
  /\ optimization_task = [t \in TaskIds |-> 0]
  /\ nloops = [t \in TaskIds |-> 0]
  /\ loop = [t \in TaskIds |-> [l \in LoopIds |-> NoLoop]]
  /\ optPaused = [t \in TaskIds |-> [l \in LoopIds |-> FALSE]]
  /\ evalCount = [t \in TaskIds |-> 0]
  /\ iterEvents = [t \in TaskIds |-> 0]
  /\ errEvents = [t \in TaskIds |-> 0]
  /\ doneEvents = [t \in TaskIds |-> 0]

\* TaskQueue.__init__
InitQueueFields ==
  /\ q_stopped = TRUE
  /\ is_paused = FALSE
  /\ current_task = 0
  /\ processing_task = 0
  /\ nscheds = 0
  /\ sched = [s \in SchedIds |-> NoSched]
  /\ nobjs = 0
  /\ stopping = [s \in SchedIds |-> FALSE]
  /\ startedBy = [s \in SchedIds |-> {}]
  /\ added = <<>>
  /\ lastAdd = NoAdd
  /\ taskDoneEvents = [t \in TaskIds |-> 0]

\* The parameter bounds of the configurations the tasks are added with.
DefaultBounds == [t \in TaskIds |-> [lower_bound |-> 0, upper_bound |-> 1]]

InitQueueVars ==
  /\ InitQueueFields
  /\ parameter_config = DefaultBounds

\* WebSocketManager.__init__, websocket_manager.py:22-27
InitWsVars ==
  /\ connections = [c \in ClientIds |-> 0]
  /\ event_buffer = <<>>
  /\ forwarded = 0
  /\ nsockets = [c \in ClientIds |-> 0]
  /\ sender = [k \in 0..NumClients |-> Idle]
  /\ received = [c \in ClientIds |-> <<>>]
  /\ seenAtConnect = [c \in ClientIds |-> 0]
  /\ dead = {}
  /\ ended = {}
  /\ closing = {}
  /\ handling = NoMessage
  /\ replies = <<>>
  /\ sweep = NoSweep
  /\ connecting = {}
  /\ closed = {}

\* EventEmitter.__init__, events.py:121-123
InitSubscribers ==
  /\ q_subscribers = <<>>
  /\ t_subscribers = [t \in TaskIds |-> <<>>]
  /\ emitted = [t \in TaskIds |-> 0]
  /\ delivered = [s \in SubIds |-> <<>>]

\* EventEmitter.__init__, events.py:121-123: no subscriber, no emit begun.
InitEmitter ==
  /\ subscribers = <<>>
  /\ emitting = [e \in EmitIds |-> NoEmit]
  /\ called = [h \in HandlerIds |-> <<>>]
  /\ nevents = 0

InitBusVars ==
  /\ InitSubscribers
  /\ InitEmitter
  /\ behaviour = [h \in HandlerIds |-> [kind |-> "sync", raises |-> FALSE]]

\* BaseParallelOptimizer.__init__, base_optimizer.py:29
InitValVars ==
  /\ optBest = [t \in TaskIds |-> [l \in LoopIds |-> Inf]]
  /\ doneBest = [t \in TaskIds |-> 0]

InitCalls ==
  /\ calls = [c \in CallIds |-> NoCall]
  /\ callsLeft = MaxCalls
  /\ lastOutcome = NoOutcome

\* One OptimizationTask, driven directly through its control methods.
InitTask ==
  /\ tasks = <<1>>
  /\ values = 1..MaxValue
  /\ \E b \in 1..MaxBudget, w \in 1..MaxWorkers :
       /\ budget = [t \in TaskIds |-> b]
       /\ num_workers = [t \in TaskIds |-> w]
  /\ InitTaskVars
  /\ InitCalls
  /\ InitQueueVars
  /\ InitWsVars
  /\ InitBusVars
  /\ InitValVars

NextTask ==
  \/ CallStep
  \/ \E t \in TaskIds, l \in LoopIds : LoopStep(t, l)

SpecTask == InitTask /\ [][NextTask]_vars

\* ------------------------------------------------------- a TaskQueue
QueueBudget == 1
QueueWorkers == 1
QueueCalls == 2

\* A new TaskQueue; its tasks are driven by the scheduler and through
\* start_task / stop_task / pause_task / resume_task, which hand over to the
\* task's start / stop / pause / resume.
InitQueue ==
  /\ tasks = <<>>
  /\ values = {1}
  /\ budget = [t \in TaskIds |-> QueueBudget]
  /\ num_workers = [t \in TaskIds |-> QueueWorkers]
  /\ InitTaskVars
  /\ calls = [c \in CallIds |-> NoCall]
  /\ callsLeft = QueueCalls
  /\ lastOutcome = NoOutcome
  /\ InitQueueVars
  /\ InitWsVars
  /\ InitBusVars
  /\ InitValVars

NextQueue ==
  \/ CallStep
  \/ \E t \in TaskIds, l \in LoopIds : LoopStep(t, l)
  \/ \E s \in SchedIds : SchedStep(s)
  \/ QueueCall

SpecQueue == InitQueue /\ [][NextQueue]_vars

\* --------------------------------------- a WebSocketManager and its clients
\* The queue forwards events to the manager while clients open sockets.
InitWs ==
  /\ tasks = <<>>
  /\ values = {1}
  /\ budget = [t \in TaskIds |-> QueueBudget]
  /\ num_workers = [t \in TaskIds |-> QueueWorkers]
  /\ InitTaskVars
  /\ InitCalls
  /\ InitQueueVars
  /\ InitWsVars
  /\ InitBusVars
  /\ InitValVars

NextWs ==
  \/ WsHandleQueueEvent
  \/ \E c \in ClientIds : WsConnect(c)
  \/ \E c \in ClientIds : WsConnectClosed(c)
  \/ \E k \in 0..NumClients : WsSendDone(k)

SpecWs == InitWs /\ [][NextWs]_vars

\* The same with clients that go away and endpoints that disconnect.
NextConn ==
  \/ NextWs
  \/ \E c \in ClientIds : PeerGone(c)
  \/ \E c \in ClientIds, k \in 1..MaxSockets : WsDisconnect(c, k)
  \/ \E c \in ClientIds, k \in 1..MaxSockets : WsDisconnectClosed(c, k)
  \/ \E c \in ClientIds : WsEndpointFailed(c)

SpecConn == InitWs /\ [][NextConn]_vars

\* Connect calls alone, any number of them in flight for one client id.
NextRace ==
  \/ \E c \in ClientIds : ConnectCall(c)
  \/ \E c \in ClientIds, k \in 1..MaxHandles : ConnectResume(c, k)

SpecRace == InitWs /\ [][NextRace]_vars

\* The clients of NextWs with the stale-connection sweep running.
NextSweep ==
  \/ NextWs
  \/ SweepBegin
  \/ \E c \in ClientIds : CleanupPing(c)
  \/ SweepDisconnect
  \/ SweepClosed
  \/ \E c \in ClientIds, k \in 1..MaxSockets : WsDisconnectClosed(c, k)

SpecSweep == InitWs /\ [][NextSweep]_vars

\* ------------------------------- a TaskQueue, its tasks and its subscribers
\* Callbacks are registered with the queue while tasks are added and emit.
NextBus ==
  \/ AddTask
  \/ \E s \in SubIds : AddSubscriber(s)
  \/ \E t \in TaskIds : TaskEmit(t)

SpecBus == InitQueue /\ [][NextBus]_vars

\* ------------------------------------------- an EventEmitter on its own
\* Callbacks of every kind are registered while events are emitted.
InitEmit ==
  /\ tasks = <<>>
  /\ values = {1}
  /\ budget = [t \in TaskIds |-> QueueBudget]
  /\ num_workers = [t \in TaskIds |-> QueueWorkers]
  /\ InitTaskVars
  /\ InitCalls
  /\ InitQueueVars
  /\ InitWsVars
  /\ InitSubscribers
  /\ InitEmitter
  /\ behaviour \in [HandlerIds -> Behaviours]
  /\ InitValVars

NextEmit ==
  \/ \E h \in HandlerIds : Subscribe(h)
  \/ \E e \in EmitIds : EmitCall(e)
  \/ \E e \in EmitIds : EmitResume(e)

SpecEmit == InitEmit /\ [][NextEmit]_vars

\* The asyncio event loop runs every coroutine that is ready: a scheduling
\* loop, an evaluation loop, and a control call whose emit or awaited loop
\* has finished. Nothing obliges the environment to issue calls.
CallContinue(c) ==
  \/ CallStartRunning(c)
  \/ CallStartLaunch(c)
  \/ CallStopResume(c)
  \/ CallReturn(c)

FairQueue ==
  /\ \A s \in SchedIds : WF_vars(SchedStep(s))
  /\ \A s \in SchedIds : WF_vars(StopProcessingDone(s))
  /\ \A t \in TaskIds, l \in LoopIds : WF_vars(LoopStep(t, l))
  /\ \A c \in CallIds : WF_vars(CallContinue(c))

SpecQueueFair == InitQueue /\ [][NextQueue]_vars /\ FairQueue

\* ------------------------------- a TaskQueue and one client's messages
\* Tasks are added and run while an endpoint receives control messages.
InitMsg ==
  /\ tasks = <<>>
  /\ values = {1}
  /\ budget = [t \in TaskIds |-> QueueBudget]
  /\ num_workers = [t \in TaskIds |-> QueueWorkers]
  /\ InitTaskVars
  /\ InitCalls
  /\ InitQueueVars
  /\ InitWsVars
  /\ InitBusVars
  /\ InitValVars

NextMsg ==
  \/ AddTask
  \/ \E m \in Messages : MsgReceive(m)
  \/ MsgCall
  \/ MsgReply
  \/ \E c \in CallIds : CallContinue(c)
  \/ \E t \in TaskIds, l \in LoopIds : LoopStep(t, l)

SpecMsg == InitMsg /\ [][NextMsg]_vars

\* ------------------------------------------------------------ properties
\* The tasks a scheduling loop has called start() on.
StartedByLoop == UNION {startedBy[s] : s \in SchedIds}

\* The tasks the queue holds.
Queued == {tasks[i] : i \in DOMAIN tasks}

\* C1: once the status of a task is completed, failed or stopped, no step of
\* a control call or of the evaluation loop changes it.
C1_TerminalIsFinal ==
  [][\A t \in TaskIds : status[t] \in Terminal => status'[t] = status[t]]_vars

\* C2: a scheduling loop calls start() on a task only when every task it
\* started earlier has left running and paused.
C2_SequentialStart ==
  [][\A s \in SchedIds : \A t \in startedBy'[s] \ startedBy[s] :
        \A u \in startedBy[s] : status[u] \notin Active]_vars

\* C3: at most one task of the queue is running or paused.
C3_OneActiveTask ==
  Cardinality({t \in Queued : status[t] \in Active}) <= 1

\* C4: while the status of a task is paused, no objective evaluation begins.
C4_NoEvaluationWhilePaused ==
  [][\A t \in TaskIds : status[t] = "paused" => evalCount'[t] = evalCount[t]]_vars

\* C5: when stop() has returned on a running or paused task, and until the
\* next call ends, the status is stopped, no evaluation loop of the task is in
\* flight, the task holds no optimizer and end_time is set.
C5_StopReleases ==
  lastOutcome.op = "stop" /\ lastOutcome.kind = "ret" =>
    LET t == lastOutcome.t IN
    /\ status[t] = "stopped"
    /\ optimizer[t] = 0
    /\ result[t].set /\ result[t].end_time > 0
    /\ \A l \in LoopIds : ~LoopInFlight(t, l)

\* C6: a stop() on a task that is already stopped does not raise.
C6_SecondStopDoesNotRaise ==
  ~(lastOutcome.op = "stop" /\ lastOutcome.kind = "raise_state"
      /\ lastOutcome.from = "stopped")

\* C7: the error field of a task is set only if its status is failed.
C7_ErrorOnlyWhenFailed ==
  \A t \in TaskIds : error[t] # "none" => status[t] = "failed"

\* C8: when an evaluation loop has ended with the exception of the objective
\* function and no stop was requested, the task is failed, its error is the
\* exception's message and OPTIMIZATION_ERROR has been emitted.
C8_ObjectiveErrorFails ==
  \A t \in TaskIds, l \in LoopIds :
    loop[t][l].pc = "raised" /\ ~stop_requested[t] =>
      status[t] = "failed" /\ error[t] = ErrorText /\ errEvents[t] > 0

\* C9: after a task started by the scheduling loop is failed, a pending task
\* of a processing, unpaused queue is eventually started, unless the queue
\* is stopped or paused first.
C9_FailureDoesNotStopScheduling ==
  \A t \in TaskIds, u \in TaskIds :
    (/\ t \in StartedByLoop /\ status[t] = "failed"
     /\ u \in Queued /\ status[u] = "pending"
     /\ ~q_stopped /\ ~is_paused)
    ~> (u \in StartedByLoop \/ status[u] # "pending" \/ q_stopped \/ is_paused)

\* The events a client's latest socket has received, in order.
EventsReceived(c) ==
  LET evs == SelectSeq(received[c], LAMBDA m : m.kind = "event") IN
  [i \in 1..Len(evs) |-> evs[i].ev]

\* C10: a socket whose replay is over has received the events forwarded
\* before it was registered (at most buffer_size of them), each once and in
\* order, ahead of anything else.
C10_ReplayBeforeNew ==
  \A c \in ClientIds :
    sender[c].pc \in {"confirm", "initial_state", "open"}
      /\ seenAtConnect[c] <= buffer_size =>
        /\ Len(EventsReceived(c)) >= seenAtConnect[c]
        /\ \A i \in 1..seenAtConnect[c] : EventsReceived(c)[i] = i

\* C11: every event a task emits is delivered to each subscriber of the
\* queue exactly once and unchanged, whether the subscriber registered
\* before or after the task was added: an emit appends that one event to the
\* log of every registered subscriber.
C11_DeliveredExactlyOnce ==
  [][\A t \in TaskIds : emitted'[t] = emitted[t] + 1 =>
       \A s \in Subscribed :
         delivered'[s] = Append(delivered[s], <<t, emitted'[t]>>)]_vars

\* The broadcast events a client's latest socket has received.
BroadcastsReceived(c) ==
  SelectSeq(received[c], LAMBDA m : m.kind = "event" /\ m.wrapped)

\* C12: once a second connect with the same client id has registered its
\* socket, the id maps to that socket only, and every event broadcast
\* afterwards has been sent to it by the time the handler is done.
C12_SecondReplacesFirst ==
  \A c \in ClientIds :
    nsockets[c] >= 2 /\ sender[c].pc \in {"replay", "confirm", "initial_state", "open"}
      => /\ connections[c] = nsockets[c]
         /\ sender[0].pc = "idle" =>
              Len(BroadcastsReceived(c)) = forwarded - seenAtConnect[c]

\* The part of C12 about the registry alone: the second connect leaves the
\* id mapped to the second socket.
C12_RegistryReplaced ==
  \A c \in ClientIds :
    nsockets[c] >= 2 /\ sender[c].pc \in {"replay", "confirm", "initial_state", "open"}
      => connections[c] = nsockets[c]

\* C13: disconnect(handle, client_id) removes the entry of client_id only if
\* the registry holds that very handle; with a newer handle stored, or the id
\* not registered, the mapping is unchanged.
C13_DisconnectOnlyOwnHandle ==
  [][\A c \in ClientIds, k \in 1..MaxSockets :
       <<c, k>> \in closing' /\ <<c, k>> \notin closing =>
         connections' = IF connections[c] = k
                        THEN [connections EXCEPT ![c] = 0]
                        ELSE connections]_vars

\* A disconnect with a replaced handle has run and the newer handle is
\* still registered.
C13_StaleDisconnectSeen ==
  \E c \in ClientIds :
    /\ <<c, 1>> \in closing
    /\ connections[c] = 2

\* C14: when sends to one registered connection fail, an event forwarded to
\* the manager is still sent to every other registered connection: the
\* broadcast is under way with each of them among its targets.
C14_OthersStillServed ==
  [][forwarded' = forwarded + 1 =>
       \A c \in Connected :
         (/\ ~Fails(c, connections[c])
          /\ \E b \in Connected : Fails(b, connections[b]))
           => /\ sender'[0].pc = "broadcast"
              /\ \E i \in DOMAIN sender'[0].todo : sender'[0].todo[i] = c]_vars

\* C15: a broadcast drops from the registry every connection on which its
\* send fails: when the handler is done with an event, no connection whose
\* sends fail is left registered.
C15_FailedConnectionDropped ==
  [][(forwarded' = forwarded + 1 \/ sender[0].pc = "broadcast")
       /\ sender'[0].pc = "idle" =>
         \A b \in Connected :
           Fails(b, connections[b]) => connections'[b] = 0]_vars

\* C16: start_task, pause_task, resume_task and stop_task return true
\* exactly when the task exists and the requested transition was applied,
\* and return false, without raising, when it is inapplicable in the task's
\* current status.
C16_BooleanOutcome ==
  lastOutcome.op # "none" =>
    QueueResult(lastOutcome.op, lastOutcome.kind) =
      IF lastOutcome.kind = "ret" THEN "True" ELSE "False"

\* No start_task / stop_task / pause_task / resume_task has been issued:
\* every task is left to the scheduler.
NoTaskCalls ==
  /\ lastOutcome = NoOutcome
  /\ \A c \in CallIds : calls[c] = NoCall

\* The place of a task in the queue's _tasks: its submission order.
Place(t) == CHOOSE i \in DOMAIN tasks : tasks[i] = t

\* C17: whenever the scheduling loop starts a task, that task is pending and
\* no pending task of the queue was submitted before it; and with the tasks
\* left to the scheduler, every task the loop started earlier is terminal by
\* then, so they start and complete in submission order.
C17_EarliestPendingFirst ==
  [][\A s \in SchedIds, t \in TaskIds :
       t \in startedBy'[s] /\ t \notin startedBy[s] =>
         /\ status[t] = "pending"
         /\ \A u \in Queued : status[u] = "pending" => Place(t) <= Place(u)
         /\ NoTaskCalls' =>
              \A u \in startedBy[s] : status[u] \in Terminal]_vars

\* The loop has started the second task after the first, the first one
\* terminal, with no control call on either.
C17_SecondStartedAfterFirst ==
  /\ NoTaskCalls
  /\ \E s \in SchedIds : startedBy[s] = {1, 2}
  /\ status[1] \in Terminal

\* C20: the best_value recorded along the optimization trace of a task never
\* increases from one trace point to a later one, and no step replaces
\* result.best_value by a larger value.
C20_BestNeverIncreases ==
  [][\A t \in TaskIds :
       /\ result'[t].best_value <= result[t].best_value
       /\ \A i, j \in DOMAIN result'[t].trace :
            i < j => result'[t].trace[j] <= result'[t].trace[i]]_vars

\* A run has ended with a best value found and its point in the trace.
C20_BestRecorded ==
  \E t \in TaskIds :
    /\ status[t] = "completed"
    /\ result[t].best_value < Inf
    /\ result[t].trace = <<result[t].best_value>>

\* ------------------------------------------------------------------- C18
\* The scheduling assumptions of a task on its own: the event loop keeps
\* running every coroutine that can take a step, and the objective function
\* returns or raises.
FairTask ==
  /\ \A t \in TaskIds, l \in LoopIds : WF_vars(LoopStep(t, l))
  /\ \A c \in CallIds : WF_vars(CallContinue(c))

SpecTaskFair == InitTask /\ [][NextTask]_vars /\ FairTask

\* pause() or stop() is being called or was called last on the task, the
\* task is paused, stopped or being stopped, or its objective raised.
Disturbed(t) ==
  \/ \E c \in CallIds : calls[c].t = t /\ calls[c].op \in {"pause", "stop"}
  \/ lastOutcome.t = t /\ lastOutcome.op \in {"pause", "stop"}
  \/ status[t] \in {"paused", "stopped", "failed"}
  \/ stop_requested[t]
  \/ error[t] # "none"
  \/ \E l \in LoopIds : \E i \in DOMAIN loop[t][l].child : loop[t][l].child[i] = "err"

\* task.py:209-240: the run is finalized and announced.
Announced(t) ==
  /\ status[t] = "completed"
  /\ result[t].end_time > 0
  /\ doneEvents[t] >= 1
  /\ doneBest[t] = result[t].best_value

ResumeStep(t) ==
  \E c \in CallIds : /\ calls[c].op = "none"
                     /\ calls'[c].op = "resume"
                     /\ calls'[c].t = t

\* A resume() call on task t has passed its status check and not returned.
Resuming(t) == \E c \in CallIds : calls[c].op = "resume" /\ calls[c].t = t

\* The task has ended: completed with the whole budget evaluated, or failed.
Terminated(t) ==
  \/ status[t] = "completed" /\ evalCount[t] >= budget[t]
  \/ status[t] = "failed"

\* The task is paused again, or is stopped or being stopped.
HeldAgain(t) == status[t] \in {"paused", "stopped"} \/ stop_requested[t]

\* C19: resume() on a paused task sets the status to running, keeps the
\* optimizer object and the remaining budget of its loops, and leaves no
\* evaluation waiting on the pause event; unless the task is paused or
\* stopped afterwards, it then runs until it is completed or failed.
C19_ResumeUnblocksLoop ==
  /\ [][\A t \in TaskIds :
          ResumeStep(t) =>
            /\ status[t] = "paused"
            /\ status'[t] = "running"
            /\ ~pause_requested'[t]
            /\ optimizer'[t] = optimizer[t]
            /\ optimizer[t] # 0 => ~optPaused'[t][optimizer[t]]
            /\ \A l \in LoopIds :
                 /\ loop'[t][l].opt = loop[t][l].opt
                 /\ loop'[t][l].remaining = loop[t][l].remaining
                 /\ loop'[t][l].opt = optimizer[t] =>
                      \A i \in DOMAIN loop'[t][l].child :
                        loop'[t][l].child[i] # "waiting"]_vars
  /\ \A t \in TaskIds : Resuming(t) ~> (Terminated(t) \/ HeldAgain(t))

\* resume() has returned and an evaluation it woke has not run yet, with
\* part of the budget already evaluated.
C19_WokenAfterResume ==
  \E t \in TaskIds, l \in LoopIds :
    /\ status[t] = "running"
    /\ lastOutcome = [op |-> "resume", t |-> t, kind |-> "ret", from |-> "none"]
    /\ \E i \in DOMAIN loop[t][l].child : loop[t][l].child[i] = "woken"
    /\ evalCount[t] >= 1
    /\ evalCount[t] < budget[t]

\* ------------------------------------------------------------------- C21
\* The evaluations of a batch whose objective call has returned or raised.
Evaluated(ch) == Cardinality({i \in DOMAIN ch : ch[i] \in {"ok", "err"}})

\* The evaluations one call of optimize() has performed: those told to the
\* generator (budget - remaining_budget, base_optimizer.py:55, 90) and those
\* of the batch being gathered.
RunEvaluations(t, l) ==
  (budget[t] - loop[t][l].remaining) + Evaluated(loop[t][l].child)

Times(h, q) == Cardinality({i \in DOMAIN q : q[i] = h})

\* C22: an emit() never ends with an exception, and one that has returned
\* has called every callback that was registered when it began exactly
\* once and in the order of registration, whatever their kind and whether
\* or not they raised.
C22_EveryHandlerCalledOnce ==
  \A e \in EmitIds :
    /\ emitting[e].pc # "raised"
    /\ emitting[e].pc = "returned" =>
         /\ Len(emitting[e].log) >= Len(emitting[e].snap)
         /\ SubSeq(emitting[e].log, 1, Len(emitting[e].snap)) = emitting[e].snap
         /\ \A i \in DOMAIN emitting[e].snap :
              Times(emitting[e].snap[i], emitting[e].log) = 1

\* An emit() has returned after a raising callback, a plain function and a
\* coroutine function that came later in the list.
C22_ReturnedPastRaisingHandler ==
  \E e \in EmitIds :
    /\ emitting[e].pc = "returned"
    /\ Len(emitting[e].snap) = MaxHandlers
    /\ behaviour[emitting[e].snap[1]].raises
    /\ \E i, j \in 2..MaxHandlers :
         /\ behaviour[emitting[e].snap[i]].kind = "sync"
         /\ behaviour[emitting[e].snap[j]].kind # "sync"

\* ------------------------------------------------------------------- C23
\* C23: every callback is called with the events in the order of the state
\* changes they announce.
C23_EventsInOrderOfChanges ==
  \A h \in HandlerIds :
    \A i, j \in DOMAIN called[h] : i < j => called[h][i] < called[h][j]

\* ------------------------------------------------------------------- C24
\* The request of the handled message was carried out: a control message
\* for a task of the queue whose method returned.
CarriedOut ==
  /\ handling.type = "CONTROL_TASK"
  /\ handling.known
  /\ lastOutcome.kind \in {"ret", "ret_noop"}

\* C24: a handled message has exactly one reply: the task snapshot for
\* REQUEST_STATE, the acknowledgement for a control message that was
\* carried out, and an error otherwise.
C24_OneFittingReply ==
  handling.pc = "done" =>
    replies = << IF handling.type = "REQUEST_STATE" THEN "STATE_UPDATE"
                 ELSE IF CarriedOut THEN "TASK_CONTROL"
                 ELSE "error" >>

\* ------------------------------------------------------------------- C25
\* C25: the first message a socket receives is CONNECTED with its client
\* id and the second is INITIAL_STATE.
C25_ConnectedThenInitialState ==
  \A c \in ClientIds :
    /\ Len(received[c]) >= 1 => received[c][1] = ConnectedNotice(c)
    /\ Len(received[c]) >= 2 => received[c][2] = Notice("initial_state")

\* ----------------------------------------------------------- submissions
\* ParameterConfig.upper_bound_must_be_greater, optimization_schemas.py:30-36
upper_bound_must_be_greater(p) == p.upper_bound > p.lower_bound

\* OptimizerConfig.budget_must_be_positive, optimization_schemas.py:46-51
budget_must_be_positive(b) == b > 0

\* OptimizationConfig(**config_dict): the validators of the schema run.
Validates(t) ==
  /\ upper_bound_must_be_greater(parameter_config[t])
  /\ budget_must_be_positive(budget[t])

\* OptimizationTask.__init__, task.py:17-47: a str is parsed and handed to
\* OptimizationConfig (29-37); any other config is stored as it is (38).
Constructs(t, f) == f = "str" => Validates(t)

MaxAdds == 3

\* add_task(config), manager.py:35-73. config.get (46) exists on a mapping
\* only; an id already in _tasks raises ValueError (49-50); then the task is
\* constructed and stored and TASK_ADDED is emitted. Whatever is raised is
\* logged and raised again (71-73).
add_task(id, f) ==
  /\ lastAdd.n < MaxAdds
  /\ id \in 1..NumTasks
  /\ id <= nobjs + 1
  /\ IF f # "dict"
     THEN /\ lastAdd' = AddRaised(id, f, "AttributeError")
          /\ UNCHANGED <<taskVars, busVars, valVars, added, parameter_config,
                         taskDoneEvents>>
          /\ UNCHANGED <<q_stopped, is_paused, current_task, processing_task,
                         nscheds, sched, nobjs, stopping, startedBy>>
     ELSE IF id <= nobjs
     THEN /\ lastAdd' = AddRaised(id, f, "ValueError")
          /\ UNCHANGED <<taskVars, busVars, valVars, added, parameter_config,
                         taskDoneEvents>>
          /\ UNCHANGED <<q_stopped, is_paused, current_task, processing_task,
                         nscheds, sched, nobjs, stopping, startedBy>>
     ELSE IF ~Constructs(id, f)
     THEN /\ lastAdd' = AddRaised(id, f, "ValidationError")
          /\ UNCHANGED <<taskVars, busVars, valVars, added, parameter_config,
                         taskDoneEvents>>
          /\ UNCHANGED <<q_stopped, is_paused, current_task, processing_task,
                         nscheds, sched, nobjs, stopping, startedBy>>
     ELSE AddTask
  /\ UNCHANGED <<callVars, wsVars>>

\* A TaskQueue that is handed configurations of every kind, valid or not,
\* while callbacks are registered with it and the tasks it holds emit.
InitAdd ==
  /\ tasks = <<>>
  /\ values = {1}
  /\ budget \in [TaskIds -> 0..QueueBudget]
  /\ num_workers = [t \in TaskIds |-> QueueWorkers]
  /\ parameter_config \in [TaskIds -> [lower_bound : 0..1, upper_bound : 0..1]]
  /\ InitTaskVars
  /\ calls = [c \in CallIds |-> NoCall]
  /\ callsLeft = 0
  /\ lastOutcome = NoOutcome
  /\ InitQueueFields
  /\ InitWsVars
  /\ InitBusVars
  /\ InitValVars

NextAdd ==
  \/ \E id \in TaskIds, f \in Forms : add_task(id, f)
  \/ \E s \in SubIds : AddSubscriber(s)
  \/ \E t \in TaskIds : TaskEmit(t)

SpecAdd == InitAdd /\ [][NextAdd]_vars

C27_InvalidNeverAdmitted ==
  \A t \in TaskIds :
    ~Validates(t) =>
      /\ \A i \in DOMAIN tasks : tasks[i] # t
      /\ \A i \in DOMAIN added : added[i] # t

\* ------------------------------------------------- start and stop of a queue
\* A TaskQueue whose processing is started, stopped, paused and resumed in
\* every order, a start during a stop that awaits its loop included.
NextProc ==
  \/ StartProcessingWithin(MaxStarts)
  \/ StopProcessing
  \/ \E s \in SchedIds : StopProcessingDone(s)
  \/ PauseProcessing
  \/ ResumeProcessing
  \/ \E s \in SchedIds :
       SchedBegin(s) \/ SchedLoop(s) \/ SchedCancelled(s) \/ SchedEnd(s)

SpecProc == InitMsg /\ [][NextProc]_vars

\* A _process_tasks coroutine that was created and has not come to its end.
Alive(s) == sched[s].pc \notin {"free", "ended"}

\* ------------------------------------------------------------------- C28
\* C28: at no time are two scheduling loops of the queue alive.
C28_OneSchedulingLoop ==
  Cardinality({s \in SchedIds : Alive(s)}) <= 1

\* ------------------------------------------------------------------- C29
\* C29: while the queue is paused its scheduling loop calls start() on no
\* task, and a step of pause_processing or resume_processing (the flag
\* changes while the queue goes on processing, and no start or stop is the
\* cause) leaves the status of every task, and the optimization loops of
\* the tasks, as they were.
C29_PauseHoldsPickUpOnly ==
  [][/\ is_paused => startedBy' = startedBy
     /\ (/\ is_paused' # is_paused
         /\ ~q_stopped /\ ~q_stopped'
         /\ nscheds' = nscheds /\ stopping' = stopping) =>
          /\ status' = status
          /\ loop' = loop
          /\ tasks' = tasks]_vars

\* The queue is paused while one task is running, has evaluated, and
\* another task is still pending, not picked up.
C29_PausedWithRunningAndPending ==
  /\ is_paused
  /\ ~q_stopped
  /\ \E t, u \in TaskIds :
       /\ t <= nobjs /\ u <= nobjs
       /\ status[t] = "running"
       /\ evalCount[t] > 0
       /\ status[u] = "pending"
       /\ u \notin StartedByLoop

\* ------------------------------------------------------------------- C30
\* C30: the event buffer never holds more than buffer_size events, and it
\* holds the events forwarded last, as many as there were up to buffer_size,
\* in the order in which they were forwarded.
C30_BufferHoldsLatest ==
  LET k == IF forwarded < buffer_size THEN forwarded ELSE buffer_size IN
  /\ Len(event_buffer) <= buffer_size
  /\ Len(event_buffer) = k
  /\ \A i \in 1..Len(event_buffer) :
       event_buffer[i].task_id = forwarded - k + i

\* ------------------------------------------------------------------- C31
\* C31: while a broadcast or a stale-connection sweep is walking the
\* connection mapping (it is suspended in the send to one of its items), no
\* step changes the mapping.
C31_MappingStableWhileIterated ==
  [][(sender[0].pc = "broadcast" \/ sweep.pc = "ping") =>
       connections' = connections]_vars

\* ------------------------------------------------------------------- C32
\* C32: at most one _run_optimization loop is ever created for a task.
C32_AtMostOneLoop ==
  \A t \in TaskIds : nloops[t] <= 1

\* ------------------------------------------------------------------- C33
\* C33: a scheduling loop comes to its end only out of its emit of
\* QUEUE_STOPPED, and once the loop has emitted it no task of the queue
\* changes its status or emits an iteration, error or completion event.
C33_QueueStoppedOnceAndLast ==
  [][/\ \A s \in SchedIds :
          (sched[s].pc # "ended" /\ sched'[s].pc = "ended") =>
            sched[s].pc = "emit_queue_stopped"
     /\ (/\ nscheds >= 1
         /\ \A s \in 1..nscheds : sched[s].pc \in {"emit_queue_stopped", "ended"}) =>
          /\ status' = status
          /\ iterEvents' = iterEvents
          /\ errEvents' = errEvents
          /\ doneEvents' = doneEvents]_vars

\* ------------------------------------------------------------------- C34
\* C34: the queue emits TASK_COMPLETED / TASK_FAILED at most once for a
\* task, and a task that the scheduling loop of a processing queue has
\* started, and that is completed or failed while that loop is idle,
\* watching no task, has had its event.
C34_FinishedTaskAnnouncedOnce ==
  \A t \in TaskIds :
    /\ taskDoneEvents[t] <= 1
    /\ (/\ status[t] \in {"completed", "failed"}
        /\ ~q_stopped
        /\ processing_task # 0
        /\ t \in startedBy[processing_task]
        /\ sched[processing_task].pc = "sleep") =>
         taskDoneEvents[t] = 1

\* ---------------------------------------------------------------------
\* C35: every TASK_STATUS_CHANGED event reports a genuine transition: a
\* step in which the evaluation loop runs _update_status (task.py:247, 262
\* and 229, after which the loop is suspended in the emit of that event)
\* changes the status of its task, so that old_status differs from
\* new_status, also on the failure path.
C35_EveryChangeGenuine ==
  [][\A t \in TaskIds : \A l \in LoopIds :
       (/\ loop'[t][l].pc \in {"emit_failed", "emit_failed2", "emit_completed"}
        /\ loop'[t][l].pc # loop[t][l].pc) =>
         status'[t] # status[t]]_vars

\* ---------------------------------------------------------------------
\* C36: once the status of a task is completed, failed or stopped, no step
\* (of a loop, of an event handler or of a control call) modifies its
\* result again.
C36_ResultFrozenWhenTerminal ==
  [][\A t \in TaskIds :
       status[t] \in {"completed", "failed", "stopped"} =>
         result'[t] = result[t]]_vars

\* ---------------------------------------------------------------------
\* C37: when the endpoint of a connection has left its message loop (the
\* client disconnected, or an error ended the endpoint), the registry no
\* longer holds its handle, and the step in which it ends leaves a newer
\* handle registered under the same client id where it is.
C37_EndedHandleUnregistered ==
  /\ [](\A c \in ClientIds, k \in 1..MaxSockets :
          <<c, k>> \in ended => connections[c] # k)
  /\ [][\A c \in ClientIds, k \in 1..MaxSockets :
          (/\ <<c, k>> \in ended' /\ <<c, k>> \notin ended
           /\ connections[c] > k) =>
            connections'[c] = connections[c]]_vars

\* The endpoint of a replaced socket has ended and the newer socket of the
\* same client is registered.
C37_OldEndedNewerRegistered ==
  \E c \in ClientIds :
    /\ <<c, 1>> \in ended
    /\ connections[c] = 2

\* ---------------------------------------------------------------------
\* C38: a disconnect call that returns pauses the queue exactly when it
\* leaves the registry without connections: with the registry empty and
\* the queue processing the paused flag is true afterwards, otherwise the
\* flags of the queue are unchanged; and with connects and disconnects only
\* (no resume_processing, no stop_processing) a paused queue stays paused.
C38_PausedWhenLastLeaves ==
  /\ [][\A c \in ClientIds, k \in 1..MaxSockets :
          (<<c, k>> \in closing /\ <<c, k>> \notin closing') =>
            /\ q_stopped' = q_stopped
            /\ is_paused' = IF Connected = {} /\ ~q_stopped THEN TRUE
                            ELSE is_paused]_vars
  /\ [][(is_paused /\ ~q_stopped) => (is_paused' /\ ~q_stopped')]_vars

\* The queue was paused by the disconnect of the first socket, and a later
\* socket of the same client is registered and in its message loop with the
\* queue still paused.
C38_PausedAcrossLaterConnect ==
  /\ is_paused /\ ~q_stopped
  /\ connections[1] = 2 /\ sender[1].pc = "open"
  /\ \A c \in ClientIds \ {1} : nsockets[c] = 0

\* ---------------------------------------------------------------------
\* C39: when a stop_processing call made on a processing queue returns,
\* is_processing and is_paused are false, the current-task pointer is null
\* and the task mapping is empty.
C39_StoppedQueueIsClean ==
  [][(\/ \E s \in SchedIds : stopping[s] /\ ~stopping'[s]
      \/ ~q_stopped /\ q_stopped' /\ stopping' = stopping) =>
       /\ q_stopped'
       /\ ~is_paused'
       /\ current_task' = 0
       /\ tasks' = <<>>]_vars

\* ---------------------------------------------------------------------
\* C40: under every interleaving of connect calls for one client id, each
\* socket whose connect call has registered it and which the registry no
\* longer holds has had close() called on it, and once no connect call is
\* in flight the registry holds a socket for the id.
C40_ReplacedHandleClosed ==
  \A c \in ClientIds :
    /\ \A k \in 1..nsockets[c] :
         (<<c, k>> \notin connecting /\ connections[c] # k) => <<c, k>> \in closed
    /\ (nsockets[c] > 0 /\ \A k \in 1..nsockets[c] : <<c, k>> \notin connecting)
         => connections[c] # 0

=========================================================================
